---- MODULE Spec2Model ----
(***************************************************************************)
(* botwars: the sandboxed agent execution subsystem (bot-worker.ts: the    *)
(* worker script and BotRunner) and the tick engine (GameLoop.ts,          *)
(* Combat.ts, GameState.ts, Physics.ts, math.ts, constants.ts).            *)
(*                                                                         *)
(* Spec        the BotRunner <-> worker message protocol of one agent      *)
(*             during a match, driven by the GameLoop's decision requests  *)
(*             and by hot-swap calls.  BotRunner keys all its state by     *)
(*             botId and each agent has its own Worker, so the protocol of *)
(*             one agent (either of the two) is modelled in full and the   *)
(*             other agent's decision is an input of the tick.             *)
(* SpecEngine  GameLoop.tick on the Entity Store from a state of a match   *)
(*             in progress, the two decisions and the Math.random draws of *)
(*             the pickup spawn being inputs.                              *)
(* SpecTwoRuns two runs of the engine in lockstep on the same decisions.   *)
(***************************************************************************)
EXTENDS Integers, Sequences, FiniteSets, TLC

VARIABLES
    agent,            \* the botId of the agent whose protocol is modelled
    \* ---- BotRunner: the agent's entries ----
    workers,          \* workers[agent]: "alive" | "none"
    ready,            \* ready[agent]
    currentCode,      \* currentCode.get(agent): source id or "none"
    pendingActions,   \* pendingActions.get(agent): request whose resolver is stored, 0 = no entry
    actionTimer,      \* request whose 50 ms timer is armed, 0 = none
    onmessage,        \* the handler installed on the agent's worker
    initState,        \* the initBot promise and its 5 s timer
    swaps,            \* swaps[c]: one record per hotSwapCode call
    \* ---- the agent's worker ----
    thinkFn,          \* bound decision function, or NullFn
    hung,             \* the worker is inside a think that never returns
    inbox,            \* messages posted to the worker, not yet handled
    outbox,           \* messages posted by the worker, not yet delivered
    \* ---- GameLoop seen from the protocol ----
    loop,             \* [pc, bot, tick, actions, published, posted]
    \* ---- history (not program state) ----
    terminated,       \* BotRunner.terminate() has been called, and the calls then outstanding
    resolution,       \* resolution[k]: how the agent's k-th getAction resolved
    answered,         \* answered[k]: what the worker did with tick request k
    \* ---- Entity Store and GameLoop (engine side) ----
    gs,               \* the GameState object
    eng,              \* the GameLoop object
    run2              \* the GameState object of a second run of the engine

hostVars == <<agent, workers, ready, currentCode, pendingActions, actionTimer, onmessage,
              initState, swaps, thinkFn, hung, inbox, outbox, loop, terminated,
              resolution, answered>>
engVars == <<gs, eng, run2>>
vars == <<hostVars, engVars>>

Bots == {0, 1}

\* ---- bound of the protocol model: the calls made on the agent's behalf in a
\* run, a tick (one getAction) or a hotSwapCode each ----
MaxCalls == 3

(***************************************************************************)
(* Source texts.  A source is described by what the worker looks at: the   *)
(* forbidden words it contains and whether `new Function(...)()` yields a  *)
(* function named think.                                                   *)
(***************************************************************************)
DANGEROUS_PATTERNS ==
    <<"postMessage", "self.", "setInterval", "setTimeout", "eval", "Function",
      "importScripts">>

SrcA == [id |-> "A", words |-> {}, body |-> "function"]
SrcB == [id |-> "B", words |-> {}, body |-> "function"]
SrcEval == [id |-> "E", words |-> {"eval"}, body |-> "function"]
SrcSyntax == [id |-> "S", words |-> {}, body |-> "syntax_error"]
SrcNoThink == [id |-> "N", words |-> {}, body |-> "not_a_function"]

SwapSources == {SrcB, SrcEval, SrcSyntax}

RECURSIVE FirstMatch(_, _)
FirstMatch(code, n) ==
    IF n > Len(DANGEROUS_PATTERNS) THEN "null"
    ELSE IF DANGEROUS_PATTERNS[n] \in code.words THEN DANGEROUS_PATTERNS[n]
    ELSE FirstMatch(code, n + 1)

\* validateCode: the first forbidden pattern the source matches, or null.
validateCode(code) == FirstMatch(code, 1)

\* compileThinkFn: TRUE when it returns a function, FALSE when it throws.
compileThinkFn(code) == code.body = "function"

(***************************************************************************)
(* Values a think call can put in a field, and JavaScript numbers.         *)
(***************************************************************************)
Num(n) == [t |-> "number", v |-> n]
Undefined == [t |-> "undefined", v |-> 0]
NaN == [t |-> "NaN", v |-> 0]
Str(w) == [t |-> "string", v |-> 0]
\* the string that spells the number n
NumStr(n) == [t |-> "numeric string", v |-> n]
BoolTrue == [t |-> "boolean", v |-> 1]
\* "number" is a finite number; Infinity is of JavaScript's type number too.
Infinity == [t |-> "Infinity", v |-> 0]

\* Number(x): a number stays (Infinity included), a numeric string gives its number,
\* true gives 1, undefined and a non-numeric string give NaN.
Number(x) ==
    CASE x.t \in {"number", "Infinity"} -> x
      [] x.t \in {"numeric string", "boolean"} -> Num(x.v)
      [] OTHER -> NaN

\* Number(x) || 0: NaN and 0 are falsy.
NumberOr0(x) == IF Number(x).t = "NaN" \/ Number(x) = Num(0) THEN Num(0) ELSE Number(x)

ActionNames == {"melee", "ranged", "special", "defend", "dash", "heal", "trap"}

NeutralAction == [move |-> <<Num(0), Num(0)>>, aim |-> <<Num(0), Num(0)>>, action |-> "null"]

\* What a think call does: it returns a value, throws, or never returns.
ThinkOutcomes == {"ok", "junk", "throw", "hang"}

RawOk == [move |-> <<Num(1), Num(0)>>, aim |-> <<Num(1), Num(0)>>, action |-> "melee"]
\* a non-object: every field read gives undefined
RawJunk == [move |-> <<Undefined, Undefined>>, aim |-> <<Undefined, Undefined>>,
            action |-> "undefined"]
\* fields omitted, action outside the enumerated set
RawPartial == [move |-> <<Num(1), Undefined>>, aim |-> <<Undefined, Str("up")>>,
               action |-> "fly"]

RawResult(outcome) ==
    CASE outcome = "ok" -> RawOk
      [] outcome = "junk" -> RawJunk
      [] OTHER -> RawPartial

\* The worker's sanitising of a think result.
Sanitize(result) ==
    [move |-> <<NumberOr0(result.move[1]), NumberOr0(result.move[2])>>,
     aim |-> <<NumberOr0(result.aim[1]), NumberOr0(result.aim[2])>>,
     action |-> IF result.action \in ActionNames THEN result.action ELSE "null"]

(***************************************************************************)
(* Identities.                                                             *)
(* A decision function is named by the compile that made it: InitFn for    *)
(* the init message's, c for the recompile of hot-swap call c.             *)
(* A handler on worker.onmessage is InitHandler (initBot's first handler), *)
(* TickHandler (the one installed on 'ready'), or c for the temporary      *)
(* handler of hot-swap call c.                                             *)
(***************************************************************************)
NullFn == -1
InitFn == 0
InitHandler == -1
TickHandler == 0

Calls == 1..MaxCalls
Reqs == 1..MaxCalls

Msg(type, req, call, code, fn, action) ==
    [type |-> type, req |-> req, call |-> call, code |-> code, fn |-> fn, action |-> action]

NotTerminated == [called |-> FALSE, req |-> 0, calls |-> {}]
NoResolution == [how |-> "none", req |-> 0, fn |-> NullFn, action |-> NeutralAction]
NoSwap == [state |-> "unused", code |-> SrcA, orig |-> TickHandler,
           timer |-> FALSE, verdict |-> "none", postedAt |-> 0, confirmedAt |-> -1]

(***************************************************************************)
(* The host-side state as one record, so that a handler and the promise    *)
(* continuations it runs (the rest of GameLoop.tick after an await) are    *)
(* one step.                                                               *)
(***************************************************************************)
Cur ==
    [agent |-> agent, workers |-> workers, ready |-> ready, currentCode |-> currentCode,
     pendingActions |-> pendingActions, actionTimer |-> actionTimer,
     onmessage |-> onmessage, initState |-> initState, swaps |-> swaps,
     thinkFn |-> thinkFn, hung |-> hung, inbox |-> inbox, outbox |-> outbox,
     loop |-> loop, terminated |-> terminated, resolution |-> resolution,
     answered |-> answered]

Commit(s) ==
    /\ agent' = s.agent
    /\ workers' = s.workers
    /\ ready' = s.ready
    /\ currentCode' = s.currentCode
    /\ pendingActions' = s.pendingActions
    /\ actionTimer' = s.actionTimer
    /\ onmessage' = s.onmessage
    /\ initState' = s.initState
    /\ swaps' = s.swaps
    /\ thinkFn' = s.thinkFn
    /\ hung' = s.hung
    /\ inbox' = s.inbox
    /\ outbox' = s.outbox
    /\ loop' = s.loop
    /\ terminated' = s.terminated
    /\ resolution' = s.resolution
    /\ answered' = s.answered
    /\ UNCHANGED engVars

\* Mutant of Post: the message overtakes the ones already queued.
PostFront(s, m) == [s EXCEPT !.inbox = <<m>> \o @]

\* worker.postMessage: the worker's event queue is first in, first out.
Post(s, m) == [s EXCEPT !.inbox = Append(@, m)]

\* self.postMessage in the worker.
Reply(s, m) == [s EXCEPT !.outbox = Append(@, m)]

(***************************************************************************)
(* GameLoop.tick as the protocol sees it: the tick asks bot 0, awaits,     *)
(* asks bot 1, awaits, then applies both actions and publishes.  A promise *)
(* that resolves runs the rest of the tick in the same turn.               *)
(***************************************************************************)
ApplyAndPublish(s) ==
    [s EXCEPT !.loop.pc = "idle", !.loop.published = @ + 1]

RECURSIVE Ask(_, _)

\* `actions.push(action)` after the await on bot i, and what follows it.
After(s, i, act) ==
    LET s1 == [s EXCEPT !.loop.actions[i] = act]
    IN IF (i + 1) \in Bots THEN Ask(s1, i + 1) ELSE ApplyAndPublish(s1)

\* The agent's getAction promise of request k resolves with act.
ResolveAction(s, k, act, how, req, fn) ==
    After([s EXCEPT !.resolution[k] = [how |-> how, req |-> req, fn |-> fn, action |-> act]],
          s.agent, act)

\* BotRunner.getAction for the agent, up to the promise it returns.
getAction(s, k) ==
    IF s.workers # "alive" \/ ~s.ready
    THEN ResolveAction(s, k, NeutralAction, "notready", 0, NullFn)
    ELSE Post([s EXCEPT !.actionTimer = k,
                        !.pendingActions = k,
                        !.loop.posted = @ + 1],
              Msg("tick", k, 0, SrcA, NullFn, NeutralAction))

\* `await this.getAction(i, this.state)` in tick k.
Ask(s, i) ==
    LET s1 == [s EXCEPT !.loop.pc = "await", !.loop.bot = i]
    IN IF i = s.agent THEN getAction(s1, s.loop.tick) ELSE s1

\* The resolver stored in pendingActions: clearTimeout, then resolve.
Resolver(s, k, m) ==
    ResolveAction([s EXCEPT !.actionTimer = IF @ = k THEN 0 ELSE @],
                  k, m.action, "reply", m.req, m.fn)

\* The handler installed on 'ready' (bot-worker.ts 151-160).
TickHandlerOn(s, m) ==
    IF m.type = "action" /\ s.pendingActions # 0
    THEN Resolver([s EXCEPT !.pendingActions = 0], s.pendingActions, m)
    ELSE s

\* gameLoop.start at the end of startBattle: the first tick is scheduled.
StartLoop(s) == [s EXCEPT !.loop.pc = "idle"]

\* The agent's initBot promise settles (a promise settles once) and startBattle
\* resumes: after initBot(0) it calls initBot(1), after initBot(1) it starts the
\* game loop, and on a rejection it logs the error and returns.
InitSettled(s, value, error) ==
    IF s.initState.promise # "pending" THEN s
    ELSE LET s1 == [s EXCEPT !.initState.promise = value, !.initState.error = error]
         IN IF value = "rejected" THEN [s1 EXCEPT !.loop.pc = "failed"]
            ELSE IF s.agent = 0 THEN [s1 EXCEPT !.loop.bot = 1]
            ELSE StartLoop(s1)

\* initBot's first handler (bot-worker.ts 143-167).
InitHandlerOn(s, m) ==
    CASE m.type = "ready" ->
            InitSettled([s EXCEPT !.initState.timer = FALSE,
                                  !.ready = TRUE,
                                  !.onmessage = TickHandler],
                        "resolved", "none")
      [] m.type = "error" ->
            InitSettled([s EXCEPT !.initState.timer = FALSE], "rejected", "worker")
      [] OTHER -> s

\* A promise resolves once: a later resolve is ignored.
SwapResolve(sw, value) == IF sw.state = "pending" THEN [sw EXCEPT !.state = value] ELSE sw

RECURSIVE HandlerOn(_, _, _)

\* hotSwapCode's temporary handler of call c (bot-worker.ts 196-213).
SwapHandlerOn(s, c, m) ==
    CASE m.type = "recompiled" ->
            [s EXCEPT !.swaps[c] = SwapResolve([@ EXCEPT !.timer = FALSE], "true"),
                      !.currentCode = s.swaps[c].code.id,
                      !.onmessage = s.swaps[c].orig]
      [] m.type = "recompile_error" ->
            [s EXCEPT !.swaps[c] = SwapResolve([@ EXCEPT !.timer = FALSE], "false"),
                      !.onmessage = s.swaps[c].orig]
      [] OTHER -> HandlerOn(s, s.swaps[c].orig, m)

\* Calling handler h with message m.
HandlerOn(s, h, m) ==
    IF h = InitHandler THEN InitHandlerOn(s, m)
    ELSE IF h = TickHandler THEN TickHandlerOn(s, m)
    ELSE SwapHandlerOn(s, h, m)

\* History: the host has received the worker's 'recompiled' for call m.call.
NoteConfirmation(s, m) ==
    IF m.type = "recompiled"
    THEN [s EXCEPT !.swaps[m.call].confirmedAt = s.loop.posted]
    ELSE s

(***************************************************************************)
(* The worker script's onmessage (bot-worker.ts 45-116).                   *)
(***************************************************************************)
WorkerInitUnchecked(s, m) ==
    Reply([s EXCEPT !.thinkFn = InitFn], Msg("ready", 0, 0, m.code, NullFn, NeutralAction))

WorkerInit(s, m) ==
    IF validateCode(m.code) # "null" \/ ~compileThinkFn(m.code)
    THEN Reply(s, Msg("error", 0, 0, m.code, NullFn, NeutralAction))
    ELSE Reply([s EXCEPT !.thinkFn = InitFn],
               Msg("ready", 0, 0, m.code, NullFn, NeutralAction))

WorkerRecompile(s, m) ==
    IF validateCode(m.code) # "null" \/ ~compileThinkFn(m.code)
    THEN Reply([s EXCEPT !.swaps[m.call].verdict = "recompile_error"],
               Msg("recompile_error", 0, m.call, m.code, NullFn, NeutralAction))
    ELSE Reply([s EXCEPT !.thinkFn = m.call,
                         !.swaps[m.call].verdict = "recompiled"],
               Msg("recompiled", 0, m.call, m.code, NullFn, NeutralAction))

WorkerTick(s, m, outcome) ==
    LET f == s.thinkFn
        noted == [s EXCEPT !.answered[m.req] = [fn |-> f, outcome |-> outcome]]
    IN IF f = NullFn
       THEN Reply([s EXCEPT !.answered[m.req] = [fn |-> f, outcome |-> "nofn"]],
                  Msg("action", m.req, 0, SrcA, f, NeutralAction))
       ELSE IF outcome = "hang" THEN [noted EXCEPT !.hung = TRUE]
       ELSE IF outcome = "throw"
       THEN Reply(noted, Msg("action", m.req, 0, SrcA, f, NeutralAction))
       ELSE Reply(noted, Msg("action", m.req, 0, SrcA, f, Sanitize(RawResult(outcome))))

\* The tick handler when think returns the value raw (bot-worker.ts 89-108).
WorkerThink(s, m, raw) ==
    Reply([s EXCEPT !.answered[m.req] = [fn |-> s.thinkFn, outcome |-> "ok"]],
          Msg("action", m.req, 0, SrcA, s.thinkFn, Sanitize(raw)))

WorkerOn(s, m, outcome) ==
    CASE m.type = "init" -> WorkerInit(s, m)
      [] m.type = "recompile" -> WorkerRecompile(s, m)
      [] OTHER -> WorkerTick(s, m, outcome)

(***************************************************************************)
(* Actions of the protocol.                                                *)
(***************************************************************************)
CallsMade == loop.tick + Cardinality({c \in Calls : swaps[c].state # "unused"})

\* The worker takes the next message of its queue and runs its handler.
WorkerStep ==
    /\ workers = "alive" /\ ~hung /\ inbox # <<>>
    /\ \E outcome \in ThinkOutcomes :
          /\ (Head(inbox).type # "tick" \/ thinkFn = NullFn) => outcome = "ok"
          /\ Commit(WorkerOn([Cur EXCEPT !.inbox = Tail(@)], Head(inbox), outcome))

\* A message of the worker is delivered to worker.onmessage on the host.
HostReceive ==
    /\ workers = "alive" /\ outbox # <<>>
    /\ Commit(HandlerOn(NoteConfirmation([Cur EXCEPT !.outbox = Tail(@)], Head(outbox)),
                        onmessage, Head(outbox)))

\* getAction's 50 ms timer fires (bot-worker.ts 228-231).
ActionTimeout ==
    /\ actionTimer # 0
    /\ Commit(ResolveAction([Cur EXCEPT !.actionTimer = 0, !.pendingActions = 0],
                            actionTimer, NeutralAction, "timer", 0, NullFn))

\* The other agent's getAction promise resolves.
OtherActions == {Sanitize(RawOk)}

OtherResolve(act) ==
    /\ loop.pc = "await" /\ loop.bot # agent
    /\ Commit(After(Cur, loop.bot, act))

\* BotRunner.hotSwapCode(agent, code); c is the call.  Its caller,
\* CodeEvolutionManager.requestEvolution, awaits the result and keeps the bot's
\* pendingRequests entry until then, so a call starts only after the one before
\* it has resolved (by the worker's answer or by the 5 s timer).
HotSwap(code) ==
    \E c \in Calls :
      /\ CallsMade < MaxCalls
      /\ swaps[c].state = "unused"
      /\ \A d \in Calls : d < c => swaps[d].state \in {"true", "false"}
      /\ LET call == [NoSwap EXCEPT !.code = code, !.postedAt = loop.posted]
         IN IF workers # "alive" \/ ~ready
            THEN Commit([Cur EXCEPT !.swaps[c] = [call EXCEPT !.state = "false"]])
            ELSE Commit(Post([Cur EXCEPT !.swaps[c] =
                                             [call EXCEPT !.state = "pending",
                                                          !.timer = TRUE,
                                                          !.orig = onmessage],
                                         !.onmessage = c],
                             Msg("recompile", 0, c, code, NullFn, NeutralAction)))

\* A hotSwapCode whose 5 s timer never fires.
SwapTimerCleared(c) == FALSE /\ UNCHANGED vars

\* hotSwapCode's 5 s timer fires.
SwapTimeout(c) ==
    /\ swaps[c].timer
    /\ Commit([Cur EXCEPT !.swaps[c] = SwapResolve([@ EXCEPT !.timer = FALSE], "false")])

\* The tick timer fires: GameLoop.tick up to its first await.
TickStart ==
    /\ loop.pc = "idle" /\ CallsMade < MaxCalls
    /\ Commit(Ask([Cur EXCEPT !.loop.tick = @ + 1], 0))

\* BotRunner.terminate()
Terminate ==
    /\ ~terminated.called
    /\ Commit([Cur EXCEPT !.workers = "none",
                          !.ready = FALSE,
                          !.currentCode = "none",
                          !.inbox = <<>>,
                          !.outbox = <<>>,
                          !.thinkFn = NullFn,
                          !.hung = FALSE,
                          !.terminated = [called |-> TRUE,
                                          req |-> actionTimer,
                                          calls |-> {c \in Calls : swaps[c].state = "pending"}]])

(***************************************************************************)
(* The engine.  Numbers are fixed-point with three decimals (Unit = 1.0),  *)
(* products truncated.  The arena is the one GameState has when            *)
(* arenaConfig is null: DEFAULT_OBSTACLES, default spawns, no terrain.     *)
(* Move and aim vectors are drawn from the x axis, {(-1,0),(0,0),(1,0)},   *)
(* so both bots stay on the axis (the only obstacle a bot on the axis can  *)
(* touch is the one centred on it) and a bot's position, facing and        *)
(* velocity are their x components; pickups keep both coordinates.         *)
(* damageDealt, damageTaken and actionsUsed are counted from the first     *)
(* state of the run (they are written and never read by the engine).       *)
(***************************************************************************)
Unit == 10 * 100

\* The two-element array indexed by botId.
PerBot(a, b) == (0 :> a @@ 1 :> b)

Abs(n) == IF n < 0 THEN -n ELSE n
Sgn(n) == IF n < 0 THEN -1 ELSE IF n > 0 THEN 1 ELSE 0
Min(a, b) == IF a < b THEN a ELSE b
Max(a, b) == IF a > b THEN a ELSE b
Mul(a, b) == (a * b) \div Unit
Round(a, b) == (2 * a + b) \div (2 * b)
Dist2(dx, dy) == dx * dx + dy * dy

ARENA_SIZE == 40
ARENA_HALF == (ARENA_SIZE * Unit) \div 2
MAX_TICKS == 2400
BOT_HP == 1000
BOT_ENERGY == 100
BOT_RADIUS == 1 * Unit
BOT_SPEED == (3 * Unit) \div 10
ENERGY_REGEN == 1
MELEE_DAMAGE == 9
MELEE_ENERGY == 12
MELEE_COOLDOWN == 10
MELEE_RANGE == 2 * Unit
RANGED_DAMAGE == 8
RANGED_ENERGY == 14
RANGED_COOLDOWN == 15
PROJECTILE_SPEED == (8 * Unit) \div 10
SPECIAL_DAMAGE == 12
SPECIAL_ENERGY == 40
SPECIAL_COOLDOWN == 50
SPECIAL_RANGE == 8 * Unit
DEFEND_ENERGY_PER_TICK == 3
DEFEND_REDUCTION == (35 * Unit) \div 100
DASH_ENERGY == 15
DASH_COOLDOWN == 12
DASH_DISTANCE == 5 * Unit
HEAL_AMOUNT == 15
HEAL_ENERGY == 30
HEAL_COOLDOWN == 40
TRAP_DAMAGE == 10
TRAP_ENERGY == 20
TRAP_COOLDOWN == 25
TRAP_RADIUS == (15 * Unit) \div 10
TRAP_MAX_PER_BOT == 2
TRAP_SLOW_DURATION == 30
TRAP_LIFETIME == 400
MELEE_COMMIT_TICKS == 3
SPECIAL_COMMIT_TICKS == 4
COMMIT_SPEED_MULT == (15 * Unit) \div 100
OOC_REGEN_DELAY == 40
OOC_REGEN_RATE == 2
MOMENTUM_BUILDUP == (12 * Unit) \div 100
MOMENTUM_DECAY == (5 * Unit) \div 10
MOMENTUM_MAX_BONUS == (5 * Unit) \div 10
BURN_DAMAGE == 1
BURN_DURATION == 20
PICKUP_INTERVAL == 100
MAX_PICKUPS == 3
HEALTH_PICKUP_AMOUNT == 20
ENERGY_PICKUP_AMOUNT == 30
PICKUP_RADIUS == (8 * Unit) \div 10
PROJECTILE_LIFETIME == 60
DEFAULT_OBSTACLES ==
    << [x |-> -8 * Unit, y |-> 0, radius |-> 2 * Unit],
       [x |-> 8 * Unit, y |-> 5 * Unit, radius |-> (15 * Unit) \div 10],
       [x |-> 5 * Unit, y |-> -8 * Unit, radius |-> (18 * Unit) \div 10] >>

\* ---- events (types.ts GameEvent); None marks an absent optional field ----
None == -1
NoPos == <<>>
Ev(type, attacker, target, damage, pos) ==
    [type |-> type, attacker |-> attacker, target |-> target, damage |-> damage, position |-> pos]
Emit(g, e) == [g EXCEPT !.events = Append(@, e)]

\* ---- GameState.init and createBot ----
createBot(id, pos) ==
    [hp |-> BOT_HP, energy |-> BOT_ENERGY, position |-> pos,
     facing |-> IF id = 0 THEN 1 ELSE -1, velocity |-> 0,
     cooldowns |-> [melee |-> 0, ranged |-> 0, special |-> 0, dash |-> 0, heal |-> 0, trap |-> 0],
     status |-> [burning |-> 0, slowed |-> 0, shielded |-> FALSE, attackCommit |-> 0],
     lastCombatTick |-> 0, momentum |-> 0, isDefending |-> FALSE,
     damageDealt |-> 0, damageTaken |-> 0,
     actionsUsed |-> [melee |-> 0, ranged |-> 0, special |-> 0, defend |-> 0,
                      dash |-> 0, heal |-> 0, trap |-> 0]]

spawn1 == -10 * Unit
spawn2 == 10 * Unit

GameStart ==
    [bots |-> PerBot(createBot(0, spawn1), createBot(1, spawn2)),
     projectiles |-> <<>>, pickups |-> <<>>, traps |-> <<>>,
     tick |-> 0, events |-> <<>>, gameOver |-> FALSE, winner |-> None,
     nextProjectileId |-> 0, nextPickupId |-> 0, nextTrapId |-> 0,
     lastKnownEnemyPos |-> PerBot(spawn2, spawn1),
     enemyVisible |-> PerBot(TRUE, TRUE)]

\* ---- Physics.ts ----
\* A movement that takes no notice of the attack commitment.
applyMovementNoCommit(bot, mx) ==
    LET slowSpeed == IF bot.status.slowed > 0 THEN BOT_SPEED \div 2 ELSE BOT_SPEED
        aligned == /\ Abs(bot.velocity) * 100 > Unit
                   /\ Abs(mx) * 100 > 1
                   /\ Sgn(bot.velocity) * mx * 10 > 7
        m1 == IF aligned THEN Min(Unit, bot.momentum + MOMENTUM_BUILDUP)
                         ELSE Mul(bot.momentum, MOMENTUM_DECAY)
        speed == Mul(slowSpeed, Unit + Mul(m1, MOMENTUM_MAX_BONUS))
    IN [bot EXCEPT !.momentum = m1,
                   !.velocity = mx * speed,
                   !.position = @ + mx * speed]

applyMovement(bot, mx) ==
    LET slowSpeed == IF bot.status.slowed > 0 THEN BOT_SPEED \div 2 ELSE BOT_SPEED
        aligned == /\ Abs(bot.velocity) * 100 > Unit
                   /\ Abs(mx) * 100 > 1
                   /\ Sgn(bot.velocity) * mx * 10 > 7
        m1 == IF aligned THEN Min(Unit, bot.momentum + MOMENTUM_BUILDUP)
                         ELSE Mul(bot.momentum, MOMENTUM_DECAY)
        commit == bot.status.attackCommit > 0
        speed == IF commit THEN Mul(slowSpeed, COMMIT_SPEED_MULT)
                           ELSE Mul(slowSpeed, Unit + Mul(m1, MOMENTUM_MAX_BONUS))
    IN [bot EXCEPT !.momentum = IF commit THEN 0 ELSE m1,
                   !.velocity = mx * speed,
                   !.position = @ + mx * speed]

applyFacing(bot, ax) == IF Abs(ax) > 0 THEN [bot EXCEPT !.facing = Sgn(ax)] ELSE bot

clampToBounds(bot) ==
    LET limit == ARENA_HALF - BOT_RADIUS
    IN [bot EXCEPT !.position = Max(-limit, Min(limit, @))]

\* On the axis the push of an obstacle centred on the axis is along the axis;
\* an obstacle off the axis is farther than BOT_RADIUS + radius from it.
PushOut(bot, obs) ==
    LET minDist == BOT_RADIUS + obs.radius
        d2 == Dist2(bot.position - obs.x, obs.y)
    IN IF d2 < minDist * minDist /\ d2 > 0 /\ obs.y = 0
       THEN [bot EXCEPT !.position = @ + Sgn(@ - obs.x) * (minDist - Abs(@ - obs.x))]
       ELSE bot

resolveObstacleCollision(bot) ==
    PushOut(PushOut(PushOut(bot, DEFAULT_OBSTACLES[1]), DEFAULT_OBSTACLES[2]), DEFAULT_OBSTACLES[3])

resolveBotCollision(g) ==
    LET a == g.bots[0]
        b == g.bots[1]
        dist == Abs(b.position - a.position)
        minDist == BOT_RADIUS * 2
        dir == Sgn(b.position - a.position)
        overlap == (minDist - dist) \div 2
    IN IF dist < minDist /\ dist > 0
       THEN [g EXCEPT !.bots[0].position = @ - dir * overlap,
                      !.bots[1].position = @ + dir * overlap]
       ELSE g

HitsObstacle(x) ==
    \E n \in 1..Len(DEFAULT_OBSTACLES) :
        Dist2(x - DEFAULT_OBSTACLES[n].x, DEFAULT_OBSTACLES[n].y)
            < DEFAULT_OBSTACLES[n].radius * DEFAULT_OBSTACLES[n].radius

updateProjectiles(projectiles) ==
    LET moved == [n \in 1..Len(projectiles) |->
                    [projectiles[n] EXCEPT !.position = @ + projectiles[n].velocity,
                                           !.lifetime = @ - 1]]
        keep(p) == /\ ~(Abs(p.position) > ARENA_HALF)
                   /\ ~HitsObstacle(p.position)
                   /\ p.lifetime > 0
    IN SelectSeq(moved, keep)

\* ---- math.ts ----
lineSegmentIntersectsCircle(p1, p2, obs) ==
    LET closest == Max(Min(p1, p2), Min(Max(p1, p2), obs.x))
    IN Dist2(closest - obs.x, obs.y) <= obs.radius * obs.radius

hasLineOfSight(from, to) ==
    ~ \E n \in 1..Len(DEFAULT_OBSTACLES) : lineSegmentIntersectsCircle(from, to, DEFAULT_OBSTACLES[n])

\* dot(facing, normalized) is 1 or -1 on the axis and cos(BOT_FOV / 2) lies
\* strictly between 0 and 1.
isInFieldOfView(facing, from, to) == to = from \/ facing * Sgn(to - from) = 1

\* ---- GameState.updateVisibility ----
canSee(g, botId) ==
    /\ hasLineOfSight(g.bots[botId].position, g.bots[1 - botId].position)
    /\ isInFieldOfView(g.bots[botId].facing, g.bots[botId].position, g.bots[1 - botId].position)

updateVisibility(g) ==
    [g EXCEPT !.enemyVisible = PerBot(canSee(g, 0), canSee(g, 1)),
              !.lastKnownEnemyPos = PerBot(IF canSee(g, 0) THEN g.bots[1].position ELSE @[0],
                                           IF canSee(g, 1) THEN g.bots[0].position ELSE @[1])]

\* ---- GameState.getEnemyStates ----
\* A view that reports the enemy's position whether it is visible or not.
getEnemyStatesActual(g, botId) ==
    LET enemy == g.bots[1 - botId]
    IN [hp |-> enemy.hp, position |-> enemy.position,
        distance |-> Abs(g.bots[botId].position - enemy.position),
        angle |-> Sgn(enemy.position - g.bots[botId].position),
        isDefending |-> enemy.isDefending, visible |-> g.enemyVisible[botId],
        status |-> enemy.status]

\* On the axis the angle from a to b is 0 or pi, or 0 for a = b: the sign of b - a.
getEnemyStates(g, botId) ==
    LET enemy == g.bots[1 - botId]
        visible == g.enemyVisible[botId]
        reportedPos == IF visible THEN enemy.position ELSE g.lastKnownEnemyPos[botId]
    IN [hp |-> enemy.hp, position |-> reportedPos,
        distance |-> Abs(g.bots[botId].position - reportedPos),
        angle |-> Sgn(reportedPos - g.bots[botId].position),
        isDefending |-> enemy.isDefending, visible |-> visible,
        status |-> enemy.status]

\* ---- Combat.ts ----
\* A countdown that does not stop at 0.
DecUnguarded(x) == x - 1

Dec(n) == IF n > 0 THEN n - 1 ELSE n
\* A hit that ignores the target's defence.
Unreduced(dmg, defending) == dmg

Reduced(dmg, defending) == IF defending THEN Round(dmg * DEFEND_REDUCTION, Unit) ELSE dmg

\* A melee that commits the attacker only when it hits.
processMeleeCommitOnHit(g, i) ==
    LET bot == g.bots[i]
        enemy == g.bots[1 - i]
        swung == [bot EXCEPT !.energy = @ - MELEE_ENERGY,
                             !.cooldowns.melee = MELEE_COOLDOWN,
                             !.actionsUsed.melee = @ + 1]
        dist == Abs(bot.position - enemy.position)
        facingDot == bot.facing * Sgn(enemy.position - bot.position)
        dmg == Reduced(MELEE_DAMAGE, enemy.isDefending)
    IN IF bot.cooldowns.melee > 0 \/ bot.energy < MELEE_ENERGY THEN g
       ELSE IF dist > MELEE_RANGE \/ facingDot * 10 < 3
       THEN Emit([g EXCEPT !.bots[i] = swung], Ev("miss", i, None, None, bot.position))
       ELSE Emit([g EXCEPT !.bots[i] = [swung EXCEPT !.damageDealt = @ + dmg,
                                                     !.lastCombatTick = g.tick,
                                                     !.status.attackCommit = MELEE_COMMIT_TICKS,
                                                     !.momentum = 0],
                           !.bots[1 - i] = [enemy EXCEPT !.hp = @ - dmg,
                                                         !.damageTaken = @ + dmg,
                                                         !.lastCombatTick = g.tick]],
                 Ev("melee_hit", i, 1 - i, dmg, enemy.position))

processMelee(g, i) ==
    LET bot == g.bots[i]
        enemy == g.bots[1 - i]
        swung == [bot EXCEPT !.energy = @ - MELEE_ENERGY,
                             !.cooldowns.melee = MELEE_COOLDOWN,
                             !.actionsUsed.melee = @ + 1,
                             !.status.attackCommit = MELEE_COMMIT_TICKS,
                             !.momentum = 0]
        dist == Abs(bot.position - enemy.position)
        facingDot == bot.facing * Sgn(enemy.position - bot.position)
        dmg == Reduced(MELEE_DAMAGE, enemy.isDefending)
    IN IF bot.cooldowns.melee > 0 \/ bot.energy < MELEE_ENERGY THEN g
       ELSE IF dist > MELEE_RANGE \/ facingDot * 10 < 3
       THEN Emit([g EXCEPT !.bots[i] = swung], Ev("miss", i, None, None, bot.position))
       ELSE Emit([g EXCEPT !.bots[i] = [swung EXCEPT !.damageDealt = @ + dmg,
                                                     !.lastCombatTick = g.tick],
                           !.bots[1 - i] = [enemy EXCEPT !.hp = @ - dmg,
                                                         !.damageTaken = @ + dmg,
                                                         !.lastCombatTick = g.tick]],
                 Ev("melee_hit", i, 1 - i, dmg, enemy.position))

addProjectile(g, ownerId, pos, vel, damage) ==
    [g EXCEPT !.projectiles = Append(@, [id |-> g.nextProjectileId, ownerId |-> ownerId,
                                         position |-> pos, velocity |-> vel,
                                         damage |-> damage, lifetime |-> PROJECTILE_LIFETIME]),
              !.nextProjectileId = @ + 1]

processRanged(g, i) ==
    LET bot == g.bots[i]
        fired == [bot EXCEPT !.energy = @ - RANGED_ENERGY,
                             !.cooldowns.ranged = RANGED_COOLDOWN,
                             !.actionsUsed.ranged = @ + 1]
    IN IF bot.cooldowns.ranged > 0 \/ bot.energy < RANGED_ENERGY THEN g
       ELSE Emit(addProjectile([g EXCEPT !.bots[i] = fired], i, bot.position,
                               bot.facing * PROJECTILE_SPEED, RANGED_DAMAGE),
                 Ev("ranged_fire", i, None, None, bot.position))

processSpecial(g, i) ==
    LET bot == g.bots[i]
        enemy == g.bots[1 - i]
        used == [bot EXCEPT !.energy = @ - SPECIAL_ENERGY,
                            !.cooldowns.special = SPECIAL_COOLDOWN,
                            !.actionsUsed.special = @ + 1,
                            !.status.attackCommit = SPECIAL_COMMIT_TICKS,
                            !.momentum = 0]
        dist == Abs(bot.position - enemy.position)
        dmg == Reduced(SPECIAL_DAMAGE, enemy.isDefending)
        g1 == Emit([g EXCEPT !.bots[i] = used], Ev("special_use", i, None, None, bot.position))
    IN IF bot.cooldowns.special > 0 \/ bot.energy < SPECIAL_ENERGY THEN g
       ELSE IF dist <= SPECIAL_RANGE
       THEN Emit([g1 EXCEPT !.bots[i].damageDealt = @ + dmg,
                            !.bots[i].lastCombatTick = g.tick,
                            !.bots[1 - i] = [enemy EXCEPT !.hp = @ - dmg,
                                                          !.status.burning = BURN_DURATION,
                                                          !.damageTaken = @ + dmg,
                                                          !.lastCombatTick = g.tick]],
                 Ev("special_hit", i, 1 - i, dmg, enemy.position))
       ELSE g1

processDefend(g, i) ==
    IF g.bots[i].energy < DEFEND_ENERGY_PER_TICK THEN g
    ELSE [g EXCEPT !.bots[i].energy = @ - DEFEND_ENERGY_PER_TICK,
                   !.bots[i].isDefending = TRUE,
                   !.bots[i].status.shielded = TRUE,
                   !.bots[i].actionsUsed.defend = @ + 1]

\* A dash that does not test its cooldown and energy.
processDashUngated(g, i) ==
    LET bot == g.bots[i]
        dashed == [bot EXCEPT !.energy = @ - DASH_ENERGY,
                              !.cooldowns.dash = DASH_COOLDOWN,
                              !.actionsUsed.dash = @ + 1,
                              !.position = @ + bot.facing * DASH_DISTANCE]
    IN Emit([g EXCEPT !.bots[i] = dashed], Ev("dash_use", i, None, None, dashed.position))

processDash(g, i) ==
    LET bot == g.bots[i]
        dashed == [bot EXCEPT !.energy = @ - DASH_ENERGY,
                              !.cooldowns.dash = DASH_COOLDOWN,
                              !.actionsUsed.dash = @ + 1,
                              !.position = @ + bot.facing * DASH_DISTANCE]
    IN IF bot.cooldowns.dash > 0 \/ bot.energy < DASH_ENERGY THEN g
       ELSE Emit([g EXCEPT !.bots[i] = dashed], Ev("dash_use", i, None, None, dashed.position))

processHeal(g, i) ==
    LET bot == g.bots[i]
        healed == Min(HEAL_AMOUNT, BOT_HP - bot.hp)
    IN IF bot.cooldowns.heal > 0 \/ bot.energy < HEAL_ENERGY THEN g
       ELSE Emit([g EXCEPT !.bots[i] = [bot EXCEPT !.energy = @ - HEAL_ENERGY,
                                                   !.cooldowns.heal = HEAL_COOLDOWN,
                                                   !.actionsUsed.heal = @ + 1,
                                                   !.hp = Min(BOT_HP, @ + HEAL_AMOUNT)]],
                 Ev("heal_use", i, None, healed, bot.position))

addTrap(g, ownerId, pos) ==
    [g EXCEPT !.traps = Append(@, [id |-> g.nextTrapId, ownerId |-> ownerId, position |-> pos,
                                   lifetime |-> 0, active |-> TRUE]),
              !.nextTrapId = @ + 1]

\* A processTrap without the cap on the owner's active traps.
processTrapUncapped(g, i) ==
    LET bot == g.bots[i]
        placed == [bot EXCEPT !.energy = @ - TRAP_ENERGY,
                              !.cooldowns.trap = TRAP_COOLDOWN,
                              !.actionsUsed.trap = @ + 1]
    IN IF bot.cooldowns.trap > 0 \/ bot.energy < TRAP_ENERGY THEN g
       ELSE Emit(addTrap([g EXCEPT !.bots[i] = placed], i, bot.position),
                 Ev("trap_place", i, None, None, bot.position))

processTrap(g, i) ==
    LET bot == g.bots[i]
        activeTraps == Cardinality({n \in 1..Len(g.traps) :
                                       g.traps[n].ownerId = i /\ g.traps[n].active})
        placed == [bot EXCEPT !.energy = @ - TRAP_ENERGY,
                              !.cooldowns.trap = TRAP_COOLDOWN,
                              !.actionsUsed.trap = @ + 1]
    IN IF bot.cooldowns.trap > 0 \/ bot.energy < TRAP_ENERGY THEN g
       ELSE IF activeTraps >= TRAP_MAX_PER_BOT THEN g
       ELSE Emit(addTrap([g EXCEPT !.bots[i] = placed], i, bot.position),
                 Ev("trap_place", i, None, None, bot.position))

\* The statements of a body run one after the other, each on the store the ones
\* before it left: { Statement(x) : x \in before } is the store after Statement
\* (one element), and Left takes it out.
Left(store) == CHOOSE g \in store : TRUE

\* A processAction whose passive regeneration starts one tick later.
processActionRegenLate(g, i, action) ==
    LET bot == g.bots[i]
        burns == bot.status.burning > 0
        b1 == [bot EXCEPT !.isDefending = FALSE,
                          !.status.shielded = FALSE,
                          !.cooldowns = [melee |-> Dec(@.melee), ranged |-> Dec(@.ranged),
                                          special |-> Dec(@.special), dash |-> Dec(@.dash),
                                          heal |-> Dec(@.heal), trap |-> Dec(@.trap)],
                          !.status.attackCommit = Dec(@),
                          !.energy = Min(100, @ + ENERGY_REGEN)]
        b2 == IF burns THEN [b1 EXCEPT !.status.burning = @ - 1,
                                       !.hp = @ - BURN_DAMAGE,
                                       !.damageTaken = @ + BURN_DAMAGE,
                                       !.lastCombatTick = g.tick]
                       ELSE b1
        b3 == [b2 EXCEPT !.status.slowed = Dec(@)]
        b4 == IF b3.status.burning = 0 /\ g.tick - b3.lastCombatTick > OOC_REGEN_DELAY
              THEN [b3 EXCEPT !.hp = Min(BOT_HP, @ + OOC_REGEN_RATE)]
              ELSE b3
        g1 == IF burns THEN Emit(g, Ev("burn_tick", None, i, BURN_DAMAGE, bot.position)) ELSE g
        g2 == [g1 EXCEPT !.bots[i] = b4]
        switch(x) == CASE action = "melee" -> processMelee(x, i)
                       [] action = "ranged" -> processRanged(x, i)
                       [] action = "special" -> processSpecial(x, i)
                       [] action = "defend" -> processDefend(x, i)
                       [] action = "dash" -> processDash(x, i)
                       [] action = "heal" -> processHeal(x, i)
                       [] action = "trap" -> processTrap(x, i)
                       [] OTHER -> x
    IN Left({ switch(x) : x \in {g2} })

processAction(g, i, action) ==
    LET bot == g.bots[i]
        burns == bot.status.burning > 0
        b1 == [bot EXCEPT !.isDefending = FALSE,
                          !.status.shielded = FALSE,
                          !.cooldowns = [melee |-> Dec(@.melee), ranged |-> Dec(@.ranged),
                                          special |-> Dec(@.special), dash |-> Dec(@.dash),
                                          heal |-> Dec(@.heal), trap |-> Dec(@.trap)],
                          !.status.attackCommit = Dec(@),
                          !.energy = Min(100, @ + ENERGY_REGEN)]
        b2 == IF burns THEN [b1 EXCEPT !.status.burning = @ - 1,
                                       !.hp = @ - BURN_DAMAGE,
                                       !.damageTaken = @ + BURN_DAMAGE,
                                       !.lastCombatTick = g.tick]
                       ELSE b1
        b3 == [b2 EXCEPT !.status.slowed = Dec(@)]
        b4 == IF b3.status.burning = 0 /\ g.tick - b3.lastCombatTick >= OOC_REGEN_DELAY
              THEN [b3 EXCEPT !.hp = Min(BOT_HP, @ + OOC_REGEN_RATE)]
              ELSE b3
        g1 == IF burns THEN Emit(g, Ev("burn_tick", None, i, BURN_DAMAGE, bot.position)) ELSE g
        g2 == [g1 EXCEPT !.bots[i] = b4]
        switch(x) == CASE action = "melee" -> processMelee(x, i)
                       [] action = "ranged" -> processRanged(x, i)
                       [] action = "special" -> processSpecial(x, i)
                       [] action = "defend" -> processDefend(x, i)
                       [] action = "dash" -> processDash(x, i)
                       [] action = "heal" -> processHeal(x, i)
                       [] action = "trap" -> processTrap(x, i)
                       [] OTHER -> x
    IN Left({ switch(x) : x \in {g2} })

RECURSIVE HitsFrom(_, _, _)
HitsFrom(g, projectiles, n) ==
    IF n > Len(projectiles) THEN g
    ELSE LET proj == projectiles[n]
             t == 1 - proj.ownerId
             bot == g.bots[t]
             dmg == Reduced(proj.damage, bot.isDefending)
         IN IF Abs(proj.position - bot.position) < (13 * Unit) \div 10
            THEN HitsFrom(Emit([g EXCEPT !.bots[t].hp = @ - dmg,
                                         !.bots[t].damageTaken = @ + dmg,
                                         !.bots[t].lastCombatTick = g.tick,
                                         !.bots[proj.ownerId].damageDealt = @ + dmg,
                                         !.bots[proj.ownerId].lastCombatTick = g.tick],
                               Ev("ranged_hit", proj.ownerId, t, dmg, proj.position)),
                          projectiles, n + 1)
            ELSE HitsFrom([g EXCEPT !.projectiles = Append(@, proj)], projectiles, n + 1)

\* A hit check that does not start from an empty list of remaining projectiles.
processProjectileHitsKeeping(g) == HitsFrom(g, g.projectiles, 1)

processProjectileHits(g) == HitsFrom([g EXCEPT !.projectiles = <<>>], g.projectiles, 1)

KOKeepHp(g, i) ==
    IF g.bots[i].hp <= 0
    THEN Emit([g EXCEPT !.gameOver = TRUE, !.winner = 1 - i],
              Ev("ko", None, i, None, NoPos))
    ELSE g

KO(g, i) ==
    IF g.bots[i].hp <= 0
    THEN Emit([g EXCEPT !.bots[i].hp = 0, !.gameOver = TRUE, !.winner = 1 - i],
              Ev("ko", None, i, None, NoPos))
    ELSE g

checkKO(g) == KO(KO(g, 0), 1)

\* ---- GameState.ts: pickups and traps ----
\* The draws of Math.random in trySpawnPickup: the type and the position.
PickupSpots == { <<0, 0>>, <<0, 10 * Unit>>, <<-8 * Unit, 1 * Unit>> }
Randoms == [type : {"health", "energy"}, pos : PickupSpots]
NoDraw == [type |-> "none", pos |-> <<0, 0>>]

\* A spawn guard without the cap on active pickups.
SpawnDueUncapped(g) == ~(g.tick % PICKUP_INTERVAL # 0 \/ g.tick = 0)

\* trySpawnPickup calls Math.random only in a tick that passes its guards.
SpawnDue(g) ==
    /\ ~(g.tick % PICKUP_INTERVAL # 0 \/ g.tick = 0)
    /\ Cardinality({n \in 1..Len(g.pickups) : g.pickups[n].active}) < MAX_PICKUPS
Draws(g) == IF SpawnDue(g) THEN Randoms ELSE {NoDraw}

OnObstacle(pos) ==
    \E n \in 1..Len(DEFAULT_OBSTACLES) :
        LET obs == DEFAULT_OBSTACLES[n]
        IN Dist2(pos[1] - obs.x, pos[2] - obs.y) < (obs.radius + 2 * Unit) * (obs.radius + 2 * Unit)

trySpawnPickup(g, rnd) ==
    IF ~SpawnDue(g) THEN g
    ELSE IF OnObstacle(rnd.pos) THEN g
    ELSE [g EXCEPT !.pickups = Append(@, [id |-> g.nextPickupId, position |-> rnd.pos,
                                          type |-> rnd.type, active |-> TRUE]),
                   !.nextPickupId = @ + 1]

Collect(g, n, i) ==
    LET pickup == g.pickups[n]
        bot == g.bots[i]
        taken == [g EXCEPT !.pickups[n].active = FALSE]
    IN IF Dist2(bot.position - pickup.position[1], pickup.position[2])
            < (PICKUP_RADIUS + 1 * Unit) * (PICKUP_RADIUS + 1 * Unit)
       THEN Emit(IF pickup.type = "health"
                 THEN [taken EXCEPT !.bots[i].hp = Min(BOT_HP, @ + HEALTH_PICKUP_AMOUNT)]
                 ELSE [taken EXCEPT !.bots[i].energy = Min(BOT_ENERGY, @ + ENERGY_PICKUP_AMOUNT)],
                 Ev("pickup", None, i, None, pickup.position))
       ELSE g

RECURSIVE PickupsFrom(_, _)
PickupsFrom(g, n) ==
    IF n > Len(g.pickups) THEN g
    ELSE IF ~g.pickups[n].active THEN PickupsFrom(g, n + 1)
    ELSE PickupsFrom(Collect(Collect(g, n, 0), n, 1), n + 1)

checkPickups(g) == PickupsFrom(g, 1)

Trigger(g, n) ==
    LET trap == g.traps[n]
        t == 1 - trap.ownerId
    IN IF Abs(g.bots[t].position - trap.position) < TRAP_RADIUS + 1 * Unit
       THEN Emit([g EXCEPT !.traps[n].active = FALSE,
                           !.bots[t].hp = @ - TRAP_DAMAGE,
                           !.bots[t].damageTaken = @ + TRAP_DAMAGE,
                           !.bots[t].status.slowed = TRAP_SLOW_DURATION,
                           !.bots[t].lastCombatTick = g.tick,
                           !.bots[trap.ownerId].damageDealt = @ + TRAP_DAMAGE,
                           !.bots[trap.ownerId].lastCombatTick = g.tick],
                 Ev("trap_trigger", trap.ownerId, t, TRAP_DAMAGE, trap.position))
       ELSE g

RECURSIVE TrapsFrom(_, _)
TrapsFrom(g, n) ==
    IF n > Len(g.traps) THEN g
    ELSE IF ~g.traps[n].active THEN TrapsFrom(g, n + 1)
    ELSE TrapsFrom(Trigger([g EXCEPT !.traps[n].lifetime = @ + 1], n), n + 1)

checkTraps(g) == TrapsFrom(g, 1)

\* ---- GameLoop.tick ----
EngNeutral == [move |-> 0, aim |-> 0, action |-> "null"]

\* The decisions the engine is fed.
Decisions ==
    { [move |-> m, aim |-> m, action |-> "null"] : m \in {-1, 0, 1} }
    \cup { [move |-> 0, aim |-> 0, action |-> a] : a \in ActionNames }

ApplyOne(g, i, action) ==
    LET moved == {[g EXCEPT !.bots[i] = applyFacing(applyMovement(@, action.move), action.aim)]}
    IN Left({ processAction(x, i, action.action) : x \in moved })

Resolve(g) ==
    resolveBotCollision(
        [g EXCEPT !.bots = PerBot(clampToBounds(resolveObstacleCollision(@[0])),
                                  clampToBounds(resolveObstacleCollision(@[1])))])

\* A tick that reports a sight that is gained as one that is lost.
SightAlwaysLost(g, prevVisible, i) ==
    IF prevVisible[i] # g.enemyVisible[i] THEN Emit(g, Ev("lost_sight", i, 1 - i, None, NoPos))
    ELSE g

Sight(g, prevVisible, i) ==
    IF prevVisible[i] /\ ~g.enemyVisible[i] THEN Emit(g, Ev("lost_sight", i, 1 - i, None, NoPos))
    ELSE IF ~prevVisible[i] /\ g.enemyVisible[i] THEN Emit(g, Ev("gained_sight", i, 1 - i, None, NoPos))
    ELSE g

Visibility(g) == Sight(Sight(updateVisibility(g), g.enemyVisible, 0), g.enemyVisible, 1)

Projectiles(g) == processProjectileHits([g EXCEPT !.projectiles = updateProjectiles(@)])

\* A trap check that leaves the triggered traps in the list.
TrapsUnswept(g) == checkTraps(g)

Traps(g) ==
    LET live(t) == t.active /\ t.lifetime < TRAP_LIFETIME
    IN [checkTraps(g) EXCEPT !.traps = SelectSeq(@, live)]

MaxTicksFirstOnTie(g) ==
    IF g.tick >= MAX_TICKS /\ ~g.gameOver
    THEN [g EXCEPT !.gameOver = TRUE,
                   !.winner = IF g.bots[1].hp > g.bots[0].hp THEN 1 ELSE 0]
    ELSE g

MaxTicksCheck(g) ==
    IF g.tick >= MAX_TICKS /\ ~g.gameOver
    THEN [g EXCEPT !.gameOver = TRUE,
                   !.winner = IF g.bots[0].hp > g.bots[1].hp THEN 0
                              ELSE IF g.bots[1].hp > g.bots[0].hp THEN 1
                              ELSE None]
    ELSE g

\* GameLoop.tick up to its first await.
TickHead(g) == [g EXCEPT !.events = <<>>, !.tick = @ + 1]

\* GameLoop.tick from "Apply actions" to the termination check.
TickBodyOneFirst(g, actions, rnd) ==
    LET applied1 == { ApplyOne(x, 1, actions[1]) : x \in {g} }
        applied == { ApplyOne(x, 0, actions[0]) : x \in applied1 }
        resolved == { Resolve(x) : x \in applied }
        seen == { Visibility(x) : x \in resolved }
        shot == { Projectiles(x) : x \in seen }
        spawned == { trySpawnPickup(x, rnd) : x \in shot }
        picked == { checkPickups(x) : x \in spawned }
        trapped == { Traps(x) : x \in picked }
        checked == { checkKO(x) : x \in trapped }
    IN Left({ MaxTicksCheck(x) : x \in checked })

TickBody(g, actions, rnd) ==
    LET applied0 == { ApplyOne(x, 0, actions[0]) : x \in {g} }
        applied == { ApplyOne(x, 1, actions[1]) : x \in applied0 }
        resolved == { Resolve(x) : x \in applied }
        seen == { Visibility(x) : x \in resolved }
        shot == { Projectiles(x) : x \in seen }
        spawned == { trySpawnPickup(x, rnd) : x \in shot }
        picked == { checkPickups(x) : x \in spawned }
        trapped == { Traps(x) : x \in picked }
        checked == { checkKO(x) : x \in trapped }
    IN Left({ MaxTicksCheck(x) : x \in checked })

\* ---- bound of the engine model: the ticks a run takes from its first state ----
MaxRun == 1

\* What an observer reads of the agents' hp and energy in the state onTick hands it.
Vitality(g) == PerBot([hp |-> g.bots[0].hp, energy |-> g.bots[0].energy],
                      [hp |-> g.bots[1].hp, energy |-> g.bots[1].energy])

Positions(g) == PerBot(g.bots[0].position, g.bots[1].position)

\* The fields of the store that getBotState, getEnemyStates and getArenaState read.
StoreFields(g) ==
    [bots |-> g.bots, projectiles |-> g.projectiles, pickups |-> g.pickups, traps |-> g.traps,
     enemyVisible |-> g.enemyVisible, lastKnownEnemyPos |-> g.lastKnownEnemyPos]

\* The tick counter and event list of the store.
Counters(g) == [tick |-> g.tick, events |-> g.events]

\* The GameLoop object after start(), for a match whose Entity Store is g.
\* The fields from published on are history: the calls of onTick and onGameOver,
\* the ticks begun, the vitals onTick was handed, the awaits that getAction's
\* 50 ms timer resolved, the store each agent's last request was built from, the
\* counters of the last tick whose body ran, whether stop() has returned, the
\* tick bodies run after that, and what the last render frame read.
EngStart(g) ==
    [pc |-> "idle", bot |-> 0, running |-> TRUE,
     actions |-> PerBot(EngNeutral, EngNeutral),
     prevPositions |-> Positions(g), currPositions |-> Positions(g),
     published |-> 0, gameOverCalls |-> 0, ran |-> 0,
     seen |-> Vitality(g), timeouts |-> 0,
     requests |-> PerBot(StoreFields(g), StoreFields(g)),
     applied |-> Counters(g), stopped |-> FALSE, late |-> 0,
     frame |-> [read |-> Counters(g), applied |-> Counters(g)]]

\* A tick that ends with onTick and scheduleTick whether the match is over or not.
EngPublishAndGoOn(e, actions, g) ==
    [e EXCEPT !.actions = actions,
              !.currPositions = Positions(g),
              !.published = @ + 1,
              !.seen = Vitality(g),
              !.applied = Counters(g),
              !.late = IF e.stopped THEN @ + 1 ELSE @,
              !.pc = "idle"]

\* The GameLoop object when the tick that produced g ends: onTick, then
\* onGameOver or scheduleTick.
EngPublish(e, actions, g) ==
    [e EXCEPT !.actions = actions,
              !.currPositions = Positions(g),
              !.published = @ + 1,
              !.seen = Vitality(g),
              !.applied = Counters(g),
              !.late = IF e.stopped THEN @ + 1 ELSE @,
              !.running = @ /\ ~g.gameOver,
              !.gameOverCalls = IF g.gameOver THEN @ + 1 ELSE @,
              !.pc = IF g.gameOver THEN "over" ELSE "idle"]

\* The tick timer fires: tick() runs up to `await this.getAction(0, ...)`.
EngTickBegin ==
    /\ eng.pc = "idle" /\ eng.running /\ eng.ran < MaxRun
    /\ gs' = TickHead(gs)
    /\ eng' = [eng EXCEPT !.pc = "await", !.bot = 0, !.ran = @ + 1,
                          !.prevPositions = Positions(gs)]
    /\ UNCHANGED <<hostVars, run2>>

\* The awaited getAction resolves with d: after bot 0's the tick awaits bot
\* 1's, after bot 1's it runs to its end.
EngDecide(d, rnd) ==
    /\ eng.pc = "await"
    /\ IF eng.bot = 0
       THEN /\ eng' = [eng EXCEPT !.actions[0] = d, !.bot = 1]
            /\ UNCHANGED gs
       ELSE LET actions == [eng.actions EXCEPT ![1] = d]
                g == TickBody(gs, actions, rnd)
            IN /\ gs' = g
               /\ eng' = EngPublish(eng, actions, g)
    /\ UNCHANGED <<hostVars, run2>>

\* ---- states of a match in progress ----
StartTicks == {PICKUP_INTERVAL - 1, MAX_TICKS - 1}
Layouts == { <<-1 * Unit, 1 * Unit>>, <<spawn1, spawn2>> }
Vitals ==
    { [hp |-> <<1000, 1000>>, energy |-> <<100, 100>>, since |-> 50],
      [hp |-> <<5, 5>>, energy |-> <<100, 100>>, since |-> 10],
      [hp |-> <<5, 600>>, energy |-> <<10, 80>>, since |-> 10],
      [hp |-> <<990, 1000>>, energy |-> <<100, 100>>, since |-> 10] }

MidMatch(t, at, v) ==
    updateVisibility(
        [GameStart EXCEPT !.tick = t,
                          !.bots[0] = [@ EXCEPT !.position = at[1], !.hp = v.hp[1],
                                                !.energy = v.energy[1],
                                                !.lastCombatTick = t - v.since],
                          !.bots[1] = [@ EXCEPT !.position = at[2], !.hp = v.hp[2],
                                                !.energy = v.energy[2],
                                                !.lastCombatTick = t - v.since]])

Scenarios ==
    {GameStart} \cup { MidMatch(t, at, v) : t \in StartTicks, at \in Layouts, v \in Vitals }

EngineIdle == gs = GameStart /\ eng = EngStart(GameStart) /\ run2 = GameStart

\* The state startBattle leaves: both initBot calls have resolved (the worker
\* has bound the init source and answered 'ready') and the loop is started.
HostInit ==
    /\ agent \in Bots
    /\ workers = "alive"
    /\ ready = TRUE
    /\ currentCode = SrcA.id
    /\ pendingActions = 0
    /\ actionTimer = 0
    /\ onmessage = TickHandler
    /\ initState = [promise |-> "resolved", timer |-> FALSE, error |-> "none"]
    /\ swaps = [c \in Calls |-> NoSwap]
    /\ thinkFn = InitFn
    /\ hung = FALSE
    /\ inbox = <<>>
    /\ outbox = <<>>
    /\ loop = [pc |-> "idle", bot |-> 0, tick |-> 0,
               actions |-> [i \in Bots |-> NeutralAction],
               published |-> 0, posted |-> 0]
    /\ terminated = NotTerminated
    /\ resolution = [k \in Reqs |-> NoResolution]
    /\ answered = [k \in Reqs |-> [fn |-> NullFn, outcome |-> "none"]]

Init == HostInit /\ EngineIdle

Next ==
    \/ WorkerStep
    \/ HostReceive
    \/ ActionTimeout
    \/ \E act \in OtherActions : OtherResolve(act)
    \/ \E code \in SwapSources : HotSwap(code)
    \/ \E c \in Calls : SwapTimeout(c)
    \/ TickStart
    \/ Terminate

Spec == Init /\ [][Next]_vars

(***************************************************************************)
(* SpecFair: Spec with fair timers: a timer set by setTimeout and not      *)
(* cleared fires (getAction's 50 ms timer, bot-worker.ts 228-231, and      *)
(* hotSwapCode's 5 s timer, 190-192).                                      *)
(***************************************************************************)
\* Calls (ticks and hot swaps) made in a run of SpecFair.
MaxFair == 2

FairNext == Next /\ CallsMade' <= MaxFair

SpecFair ==
    Init /\ [][FairNext]_vars /\ WF_vars(ActionTimeout) /\ \A c \in Calls : WF_vars(SwapTimeout(c))

(***************************************************************************)
(* SpecSanitize: the path of one decision from think's return value to the *)
(* action getAction resolves with.  The value think returns is drawn in    *)
(* the initial state (eng.raw).                                            *)
(***************************************************************************)
MaxSan == 1

RawValues ==
    {Num(0), Num(1), Num(-1), Undefined, NaN, Str("up"), NumStr(2), BoolTrue, Infinity}

RawActions == ActionNames \cup {"fly", "undefined"}

RawResults ==
    { [move |-> <<a, b>>, aim |-> <<b, a>>, action |-> w] :
          a \in RawValues, b \in RawValues, w \in {"melee", "fly"} }
    \cup { [RawOk EXCEPT !.action = w] : w \in RawActions }

SanInit ==
    /\ HostInit
    /\ gs = GameStart /\ run2 = GameStart
    /\ eng \in { [raw |-> r] : r \in RawResults }

SanTickStart == TickStart /\ loop.tick < MaxSan

SanWorkerStep ==
    /\ workers = "alive" /\ ~hung /\ inbox # <<>>
    /\ Head(inbox).type = "tick"
    /\ Commit(WorkerThink([Cur EXCEPT !.inbox = Tail(@)], Head(inbox), eng.raw))

SanNext ==
    \/ SanTickStart
    \/ SanWorkerStep
    \/ HostReceive
    \/ ActionTimeout
    \/ \E act \in OtherActions : OtherResolve(act)

SpecSanitize == SanInit /\ [][SanNext]_vars

(***************************************************************************)
(* SpecCombat: the combat operations of the store applied to a store of a  *)
(* match in progress: a whole tick, or processMelee, processSpecial or     *)
(* processProjectileHits alone.  eng keeps the operation and the store it  *)
(* was applied to.                                                         *)
(***************************************************************************)
MaxCombat == 1

CombatTickOf == 50

CombatLayouts == { <<-1 * Unit, 1 * Unit>>, <<-3 * Unit, 3 * Unit>>, <<spawn1, spawn2>> }

\* Energy and cooldowns of both agents: the gates are open, the energy is short
\* of every attack's cost, or the attacks are cooling down.
CombatGates == {"open", "tired", "cooling"}

\* Both agents have moved (momentum), turned (away) and defended in the tick
\* before (defending); shot: a projectile of agent 0 is about to reach agent 1.
CombatStance(bot, id, away, defending, gate) ==
    [bot EXCEPT !.facing = IF away THEN -@ ELSE @,
                !.isDefending = defending,
                !.momentum = Unit \div 2,
                !.velocity = IF id = 0 THEN BOT_SPEED ELSE -BOT_SPEED,
                !.energy = IF gate = "tired" THEN 10 ELSE 100,
                !.cooldowns.melee = IF gate = "cooling" THEN 5 ELSE 0,
                !.cooldowns.special = IF gate = "cooling" THEN 5 ELSE 0]

CombatStart(at, away, defending, gate, shot) ==
    LET g == MidMatch(CombatTickOf, at, [hp |-> <<BOT_HP, BOT_HP>>, energy |-> <<100, 100>>,
                                        since |-> 10])
        placed == [g EXCEPT !.bots[0] = CombatStance(@, 0, away, defending, gate),
                            !.bots[1] = CombatStance(@, 1, away, defending, gate)]
    IN updateVisibility(
           IF shot THEN addProjectile(placed, 0, at[2] - Unit, PROJECTILE_SPEED, RANGED_DAMAGE)
                   ELSE placed)

CombatStarts ==
    { CombatStart(at, away, defending, gate, shot) :
          at \in CombatLayouts, away \in BOOLEAN, defending \in BOOLEAN,
          gate \in CombatGates, shot \in BOOLEAN }

CombatDecisions ==
    { [move |-> 0, aim |-> 0, action |-> a] : a \in {"null", "melee", "special", "defend"} }

CombatDone(e, op, i, actions, before) ==
    [op |-> op, bot |-> i, actions |-> actions, before |-> before, done |-> e.done + 1]

CombatInit ==
    /\ HostInit /\ agent = 0
    /\ gs \in CombatStarts
    /\ eng = [op |-> "none", bot |-> 0, actions |-> PerBot(EngNeutral, EngNeutral),
              before |-> gs, done |-> 0]
    /\ run2 = GameStart

\* One call of GameLoop.tick with the decisions d0 and d1.
CombatTick(d0, d1) ==
    /\ eng.done < MaxCombat /\ ~gs.gameOver
    /\ \E rnd \in Draws(TickHead(gs)) :
       \E g \in {TickBody(TickHead(gs), PerBot(d0, d1), rnd)} :
          /\ gs' = g
          /\ eng' = CombatDone(eng, "tick", 0, PerBot(d0, d1), gs)
    /\ UNCHANGED <<hostVars, run2>>

CombatMelee(i) ==
    /\ eng.done < MaxCombat
    /\ gs' = processMelee(gs, i)
    /\ eng' = CombatDone(eng, "melee", i, eng.actions, gs)
    /\ UNCHANGED <<hostVars, run2>>

CombatSpecial(i) ==
    /\ eng.done < MaxCombat
    /\ gs' = processSpecial(gs, i)
    /\ eng' = CombatDone(eng, "special", i, eng.actions, gs)
    /\ UNCHANGED <<hostVars, run2>>

CombatHits ==
    /\ eng.done < MaxCombat
    /\ gs' = processProjectileHits(gs)
    /\ eng' = CombatDone(eng, "hits", 0, eng.actions, gs)
    /\ UNCHANGED <<hostVars, run2>>

CombatNext ==
    \/ \E d0 \in CombatDecisions : \E d1 \in CombatDecisions : CombatTick(d0, d1)
    \/ \E i \in Bots : CombatMelee(i)
    \/ \E i \in Bots : CombatSpecial(i)
    \/ CombatHits

SpecCombat == CombatInit /\ [][CombatNext]_vars

(***************************************************************************)
(* SpecTrace: GameLoop.tick applied to a store of a match in progress,     *)
(* with the store kept as each statement of the tick leaves it (eng.trace: *)
(* after agent 0's action, agent 1's action, the physics resolution, the   *)
(* visibility update, the projectiles, the pickups, the traps, checkKO and *)
(* the MAX_TICKS check), next to the store before and the decisions.       *)
(***************************************************************************)
MaxTrace == 1

\* GameLoop.tick from "Apply actions" on, statement by statement.
TickTrace(g, actions, rnd) ==
    LET t1 == { <<ApplyOne(x, 0, actions[0])>> : x \in {g} }
        t2 == { Append(t, ApplyOne(t[1], 1, actions[1])) : t \in t1 }
        t3 == { Append(t, Resolve(t[2])) : t \in t2 }
        t4 == { Append(t, Visibility(t[3])) : t \in t3 }
        t5 == { Append(t, Projectiles(t[4])) : t \in t4 }
        t6 == { Append(t, checkPickups(trySpawnPickup(t[5], rnd))) : t \in t5 }
        t7 == { Append(t, Traps(t[6])) : t \in t6 }
        t8 == { Append(t, checkKO(t[7])) : t \in t7 }
    IN Left({ Append(t, MaxTicksCheck(t[8])) : t \in t8 })

TraceLayouts == { <<-1 * Unit, 1 * Unit>>, <<-3 * Unit, 3 * Unit>>, <<spawn1, spawn2>> }
TraceGates == {"open", "tired", "cooling"}

\* An agent after earlier ticks: it has turned (away), defended in the tick
\* before (defending), lost hp, spent its energy (tired) or used its actions
\* (cooling).
TraceStance(bot, away, defending, hp, gate) ==
    [bot EXCEPT !.facing = IF away THEN -@ ELSE @,
                !.isDefending = defending,
                !.status.shielded = defending,
                !.hp = hp,
                !.energy = IF gate = "tired" THEN 1 ELSE 100,
                !.cooldowns = IF gate = "cooling"
                              THEN [melee |-> 5, ranged |-> 5, special |-> 5, dash |-> 5,
                                    heal |-> 5, trap |-> 5]
                              ELSE @]

\* Each owner has n active traps behind its spawn.
TraceTraps(g, n) ==
    LET one == addTrap(addTrap(g, 0, -15 * Unit), 1, 15 * Unit)
    IN IF n = 1 THEN one ELSE addTrap(addTrap(one, 0, -16 * Unit), 1, 16 * Unit)

TraceStart(at, away, defending, hp, gate, n) ==
    LET g == MidMatch(CombatTickOf, at, [hp |-> <<hp, hp>>, energy |-> <<100, 100>>,
                                        since |-> 10])
        \* agents that turned away have not seen each other since GameState.init
        known == IF away THEN PerBot(spawn2, spawn1) ELSE g.lastKnownEnemyPos
    IN updateVisibility(
           TraceTraps([g EXCEPT !.bots[0] = TraceStance(@, away, defending, hp, gate),
                                !.bots[1] = TraceStance(@, away, defending, hp, gate),
                                !.lastKnownEnemyPos = known], n))

TraceStarts ==
    { TraceStart(at, away, defending, hp, "open", 1) :
          at \in TraceLayouts, away \in BOOLEAN, defending \in BOOLEAN, hp \in {BOT_HP, 5} }
    \cup { TraceStart(<<-1 * Unit, 1 * Unit>>, FALSE, FALSE, BOT_HP, gate, n) :
               gate \in TraceGates, n \in 1..TRAP_MAX_PER_BOT }

TraceDecisions0 ==
    { [move |-> 0, aim |-> 0, action |-> a] : a \in ActionNames }
    \cup { [move |-> 0, aim |-> m, action |-> "null"] : m \in {-1, 0, 1} }

TraceDecisions1 ==
    { [move |-> 0, aim |-> 0, action |-> a] : a \in {"null", "melee", "special", "defend", "heal"} }

TraceInit ==
    /\ HostInit /\ agent = 0
    /\ gs \in TraceStarts
    /\ eng = [before |-> gs, actions |-> PerBot(EngNeutral, EngNeutral), rnd |-> NoDraw,
              trace |-> <<gs>>, done |-> 0]
    /\ run2 = GameStart

\* One call of GameLoop.tick with the decisions d0 and d1.
TraceTick(d0, d1) ==
    /\ eng.done < MaxTrace /\ ~gs.gameOver
    /\ \E rnd \in Draws(TickHead(gs)) :
       \E t \in {TickTrace(TickHead(gs), PerBot(d0, d1), rnd)} :
          /\ gs' = t[Len(t)]
          /\ eng' = [before |-> gs, actions |-> PerBot(d0, d1), rnd |-> rnd, trace |-> t,
                     done |-> eng.done + 1]
    /\ UNCHANGED <<hostVars, run2>>

TraceNext == \E d0 \in TraceDecisions0 : \E d1 \in TraceDecisions1 : TraceTick(d0, d1)

SpecTrace == TraceInit /\ [][TraceNext]_vars

(***************************************************************************)
(* SpecField: ticks of a match with pickups, traps and projectiles on the  *)
(* field and with the agents at the arena's bound.  eng is as in SpecTrace:*)
(* the store before the last tick, its decisions and draw, and the store   *)
(* after each of its statements.                                           *)
(***************************************************************************)
MaxField == 2

FieldPickup(g, pos, type, active) ==
    [g EXCEPT !.pickups = Append(@, [id |-> g.nextPickupId, position |-> pos,
                                     type |-> type, active |-> active]),
              !.nextPickupId = @ + 1]

FieldVitals == [hp |-> <<BOT_HP \div 2, BOT_HP \div 2>>, energy |-> <<50, 50>>, since |-> 10]

\* Both agents within reach of one active pickup; a collected pickup lies under
\* agent 0.
FieldShared ==
    FieldPickup(FieldPickup(MidMatch(CombatTickOf, <<-1 * Unit, 1 * Unit>>, FieldVitals),
                            <<0, 0>>, "health", TRUE),
                <<-1 * Unit, 0>>, "energy", FALSE)

\* The tick before a spawn tick with n active pickups out of reach and a
\* collected one.
FieldBeforeSpawn(n) ==
    LET g0 == FieldPickup(MidMatch(PICKUP_INTERVAL - 1, <<spawn1, spawn2>>, FieldVitals),
                          <<-10 * Unit, 10 * Unit>>, "health", FALSE)
        g1 == FieldPickup(g0, <<0, -10 * Unit>>, "health", TRUE)
        g2 == FieldPickup(g1, <<10 * Unit, -10 * Unit>>, "energy", TRUE)
        g3 == FieldPickup(g2, <<-10 * Unit, -10 * Unit>>, "energy", TRUE)
    IN CASE n = 0 -> g0 [] n = 1 -> g1 [] n = 2 -> g2 [] OTHER -> g3

\* A trap of agent 0 next to agent 1, one under agent 0's own feet, and a trap
\* of agent 1 under agent 1's feet.
FieldTrapped ==
    addTrap(addTrap(addTrap(MidMatch(CombatTickOf, <<-3 * Unit, 3 * Unit>>, FieldVitals),
                            0, 2 * Unit), 0, -3 * Unit), 1, 3 * Unit)

\* A projectile of agent 0 about to reach agent 1, one of agent 0 that has just
\* left it, and one of agent 1 that has just left agent 1.
FieldShot ==
    addProjectile(
        addProjectile(
            addProjectile(MidMatch(CombatTickOf, <<-3 * Unit, 3 * Unit>>, FieldVitals),
                          0, 2 * Unit, PROJECTILE_SPEED, RANGED_DAMAGE),
            0, -3 * Unit, PROJECTILE_SPEED, RANGED_DAMAGE),
        1, 3 * Unit, -PROJECTILE_SPEED, RANGED_DAMAGE)

\* Agent 1 stands at the arena's bound, agent 0 next to it.
FieldAtBound ==
    MidMatch(CombatTickOf,
             <<ARENA_HALF - BOT_RADIUS - 2 * BOT_RADIUS, ARENA_HALF - BOT_RADIUS>>, FieldVitals)

FieldStarts ==
    {FieldShared, FieldTrapped, FieldShot, FieldAtBound}
    \cup { FieldBeforeSpawn(n) : n \in (MAX_PICKUPS - 1)..MAX_PICKUPS }

FieldDecisions0 ==
    { [move |-> 0, aim |-> 0, action |-> a] : a \in {"null", "ranged", "trap", "dash", "special"} }
    \cup { [move |-> 1, aim |-> 0, action |-> "null"] }

FieldDecisions1 ==
    { [move |-> 0, aim |-> 0, action |-> a] : a \in {"null", "heal", "melee"} }

FieldInit ==
    /\ HostInit /\ agent = 0
    /\ gs \in FieldStarts
    /\ eng = [before |-> gs, actions |-> PerBot(EngNeutral, EngNeutral), rnd |-> NoDraw,
              trace |-> <<gs>>, done |-> 0]
    /\ run2 = GameStart

\* One call of GameLoop.tick with the decisions d0 and d1.
FieldTick(d0, d1) ==
    /\ eng.done < MaxField /\ ~gs.gameOver
    /\ \E rnd \in Draws(TickHead(gs)) :
       \E t \in {TickTrace(TickHead(gs), PerBot(d0, d1), rnd)} :
          /\ gs' = t[Len(t)]
          /\ eng' = [before |-> gs, actions |-> PerBot(d0, d1), rnd |-> rnd, trace |-> t,
                     done |-> eng.done + 1]
    /\ UNCHANGED <<hostVars, run2>>

FieldNext == \E d0 \in FieldDecisions0 : \E d1 \in FieldDecisions1 : FieldTick(d0, d1)

SpecField == FieldInit /\ [][FieldNext]_vars

(***************************************************************************)

(* SpecEvolve: one CodeEvolutionManager (CodeEvolutionManager.ts).  eng is *)
(* the manager: matchActive, pendingRequests, and per agent where its      *)
(* requestEvolution call is suspended (req: "none", "fetch" in `await      *)
(* fetch`, "json" in `await res.json()`, "swap" in `await onCodeUpdate`)   *)
(* and whether its AbortController was aborted.  History: started (calls   *)
(* of requestEvolution), updates (calls of onCodeUpdate), late (those made *)
(* after dispose()), answered (responses with code whose body-parse        *)
(* completed after dispose()).                                             *)
(***************************************************************************)
MaxEvo == 3

Manager ==
    [matchActive |-> TRUE, pendingRequests |-> {}, req |-> PerBot("none", "none"),
     aborted |-> PerBot(FALSE, FALSE), disposed |-> FALSE,
     started |-> 0, updates |-> 0, late |-> 0, answered |-> 0]

\* The finally block of requestEvolution, which ends the call.
EvoFinally(e, b) == [e EXCEPT !.pendingRequests = @ \ {b}, !.req[b] = "none"]

\* requestEvolution after `await res.json()` without the test of matchActive.
AfterJsonUnchecked(e, b, code) ==
    IF code THEN [e EXCEPT !.req[b] = "swap", !.updates = @ + 1,
                           !.late = IF e.disposed THEN @ + 1 ELSE @]
    ELSE EvoFinally(e, b)

\* requestEvolution after `await fetch(...)` resolved with res.
AfterFetch(e, b, ok) ==
    IF ~e.matchActive THEN EvoFinally(e, b)
    ELSE IF ~ok THEN EvoFinally(e, b)
    ELSE [e EXCEPT !.req[b] = "json"]

\* requestEvolution after `await res.json()` resolved; code: the body has code.
AfterJson(e, b, code) ==
    IF ~e.matchActive THEN EvoFinally(e, b)
    ELSE IF code THEN [e EXCEPT !.req[b] = "swap", !.updates = @ + 1,
                                !.late = IF e.disposed THEN @ + 1 ELSE @]
    ELSE EvoFinally(e, b)

EvoInit ==
    /\ HostInit /\ agent = 0
    /\ gs = GameStart /\ run2 = GameStart
    /\ eng = Manager

\* processEvents picks a trigger for agent b and calls requestEvolution, which
\* runs up to `await fetch`.
EvoRequest(b) ==
    /\ eng.matchActive /\ b \notin eng.pendingRequests /\ eng.started < MaxEvo
    /\ eng' = [eng EXCEPT !.pendingRequests = @ \cup {b}, !.req[b] = "fetch",
                          !.aborted[b] = FALSE, !.started = @ + 1]
    /\ UNCHANGED <<hostVars, gs, run2>>

\* The fetch resolves, with an ok or a failed response; a response that had
\* arrived when the controller was aborted still resolves it.
EvoFetched(b, ok) ==
    /\ eng.req[b] = "fetch"
    /\ eng' = AfterFetch(eng, b, ok)
    /\ UNCHANGED <<hostVars, gs, run2>>

\* An awaited fetch or body-parse rejects (network error, bad JSON, AbortError):
\* catch, then finally.
EvoRejected(b) ==
    /\ eng.req[b] \in {"fetch", "json"}
    /\ eng' = EvoFinally(eng, b)
    /\ UNCHANGED <<hostVars, gs, run2>>

\* The body-parse completes.
EvoParsed(b, code) ==
    /\ eng.req[b] = "json"
    /\ eng' = [AfterJson(eng, b, code) EXCEPT
                  !.answered = IF eng.disposed /\ code THEN @ + 1 ELSE @]
    /\ UNCHANGED <<hostVars, gs, run2>>

\* The awaited onCodeUpdate resolves: the thought callbacks, then finally.
EvoSwapped(b) ==
    /\ eng.req[b] = "swap"
    /\ eng' = EvoFinally(eng, b)
    /\ UNCHANGED <<hostVars, gs, run2>>

\* CodeEvolutionManager.dispose()
EvoDispose ==
    /\ ~eng.disposed
    /\ eng' = [eng EXCEPT !.matchActive = FALSE,
                          !.aborted = PerBot(@[0] \/ 0 \in eng.pendingRequests,
                                             @[1] \/ 1 \in eng.pendingRequests),
                          !.pendingRequests = {},
                          !.disposed = TRUE]
    /\ UNCHANGED <<hostVars, gs, run2>>

EvoNext ==
    \/ \E b \in Bots : EvoRequest(b)
    \/ \E b \in Bots : \E ok \in BOOLEAN : EvoFetched(b, ok)
    \/ \E b \in Bots : EvoRejected(b)
    \/ \E b \in Bots : \E code \in BOOLEAN : EvoParsed(b, code)
    \/ \E b \in Bots : EvoSwapped(b)
    \/ EvoDispose

SpecEvolve == EvoInit /\ [][EvoNext]_vars

(***************************************************************************)
(* SpecStatus: some consecutive ticks of one match.  Agent 0 walks and     *)
(* attacks, agent 1 stands still out of reach.  eng.hist keeps the tick    *)
(* counter and the agents as each tick left them, the first entry being the*)
(* state the run starts from.                                              *)
(***************************************************************************)
MaxStatus == 6

StatusTickOf == 50

\* since: ticks since the last combat contact; agent 0 has walked (velocity,
\* momentum) and may be slowed, agent 1 may be burning.
StatusStart(since, slowed, burning) ==
    LET g == MidMatch(StatusTickOf, <<spawn1, spawn2>>,
                      [hp |-> <<BOT_HP \div 2, BOT_HP - 1>>, energy |-> <<100, 100>>,
                       since |-> since])
    IN [g EXCEPT !.bots[0].status.slowed = slowed,
                 !.bots[0].velocity = BOT_SPEED,
                 !.bots[0].momentum = 2 * MOMENTUM_BUILDUP,
                 !.bots[1].status.burning = burning]

StatusStarts ==
    { StatusStart(OOC_REGEN_DELAY - 3, 0, 2), StatusStart(OOC_REGEN_DELAY - 2, 2, 0) }

StatusDecisions ==
    { [move |-> 1, aim |-> 0, action |-> a] : a \in {"null", "melee", "special"} }
    \cup { [move |-> -1, aim |-> 0, action |-> "null"] }

StatusEntry(g) == [tick |-> g.tick, bots |-> g.bots]

StatusInit ==
    /\ HostInit /\ agent = 0
    /\ gs \in StatusStarts
    /\ eng = [hist |-> <<StatusEntry(gs)>>]
    /\ run2 = GameStart

\* One call of GameLoop.tick: agent 0 decides d, agent 1 returns no action.
StatusTick(d) ==
    /\ Len(eng.hist) <= MaxStatus /\ ~gs.gameOver
    /\ \E rnd \in Draws(TickHead(gs)) :
       \E g \in {TickBody(TickHead(gs), PerBot(d, EngNeutral), rnd)} :
          /\ gs' = g
          /\ eng' = [hist |-> Append(eng.hist, StatusEntry(g))]
    /\ UNCHANGED <<hostVars, run2>>

StatusNext == \E d \in StatusDecisions : StatusTick(d)

SpecStatus == StatusInit /\ [][StatusNext]_vars

(***************************************************************************)

(* SpecEngine: one match, from a state of a match in progress.             *)
(***************************************************************************)
EngInit ==
    /\ HostInit /\ agent = 0
    /\ gs \in Scenarios
    /\ eng = EngStart(gs)
    /\ run2 = gs

EngNext ==
    \/ EngTickBegin
    \/ \E d \in Decisions : \E rnd \in Draws(gs) : EngDecide(d, rnd)

SpecEngine == EngInit /\ [][EngNext]_vars

(***************************************************************************)
(* SpecTwoRuns: two runs of the engine in lockstep, from the same state    *)
(* and fed the same decisions; each run makes its own Math.random draws.   *)
(***************************************************************************)
TwoTickBegin ==
    /\ eng.pc = "idle" /\ eng.running /\ eng.ran < MaxRun
    /\ gs' = TickHead(gs)
    /\ run2' = IF run2.gameOver THEN run2 ELSE TickHead(run2)
    /\ eng' = [eng EXCEPT !.pc = "await", !.bot = 0, !.ran = @ + 1,
                          !.prevPositions = Positions(gs)]
    /\ UNCHANGED hostVars

TwoDecide(d, rnd, rnd2) ==
    /\ eng.pc = "await"
    /\ IF eng.bot = 0
       THEN /\ eng' = [eng EXCEPT !.actions[0] = d, !.bot = 1]
            /\ UNCHANGED <<gs, run2>>
       ELSE LET actions == [eng.actions EXCEPT ![1] = d]
                g == TickBody(gs, actions, rnd)
            IN /\ gs' = g
               /\ run2' = IF run2.gameOver THEN run2 ELSE TickBody(run2, actions, rnd2)
               /\ eng' = EngPublish(eng, actions, g)
    /\ UNCHANGED hostVars

TwoNext ==
    \/ TwoTickBegin
    \/ \E d \in Decisions : \E rnd \in Draws(gs), rnd2 \in Draws(run2) : TwoDecide(d, rnd, rnd2)

SpecTwoRuns == EngInit /\ [][TwoNext]_vars

(***************************************************************************)
(* SpecInit: startBattle from `new BotRunner()` on: initBot(0), initBot(1) *)
(* and gameLoop.start, then the first ticks.  The other agent's initBot is *)
(* an input: it resolves or rejects.                                       *)
(***************************************************************************)
InitSources == {SrcA, SrcEval, SrcSyntax, SrcNoThink}

\* BotRunner.initBot(agent, code) up to the promise it returns: a new worker,
\* the 5 s timer, the first handler, the init message.
initBot(s, code) ==
    Post([s EXCEPT !.workers = "alive",
                   !.currentCode = code.id,
                   !.onmessage = InitHandler,
                   !.initState = [promise |-> "pending", timer |-> TRUE, error |-> "none"]],
         Msg("init", 0, 0, code, NullFn, NeutralAction))

BeforeBattle ==
    /\ agent \in Bots
    /\ workers = "none"
    /\ ready = FALSE
    /\ currentCode = "none"
    /\ pendingActions = 0
    /\ actionTimer = 0
    /\ onmessage = InitHandler
    /\ initState = [promise |-> "none", timer |-> FALSE, error |-> "none"]
    /\ swaps = [c \in Calls |-> NoSwap]
    /\ thinkFn = NullFn
    /\ hung = FALSE
    /\ inbox = <<>>
    /\ outbox = <<>>
    /\ loop = [pc |-> "none", bot |-> 0, tick |-> 0,
               actions |-> [i \in Bots |-> NeutralAction],
               published |-> 0, posted |-> 0]
    /\ terminated = NotTerminated
    /\ resolution = [k \in Reqs |-> NoResolution]
    /\ answered = [k \in Reqs |-> [fn |-> NullFn, outcome |-> "none"]]
    /\ EngineIdle

\* startBattle up to `await botRunner.initBot(0, botCodes[0])`; code is the
\* agent's source when the agent is bot 0.
StartBattle(code) ==
    /\ loop.pc = "none"
    /\ IF agent = 0
       THEN Commit(initBot([Cur EXCEPT !.loop.pc = "init"], code))
       ELSE Commit([Cur EXCEPT !.loop.pc = "init"])

\* The other agent's initBot promise settles; code is the agent's source when
\* the agent is bot 1.
OtherInit(ok, code) ==
    /\ loop.pc = "init" /\ loop.bot # agent
    /\ IF ~ok THEN Commit([Cur EXCEPT !.loop.pc = "failed"])
       ELSE IF agent = 1 THEN Commit(initBot([Cur EXCEPT !.loop.bot = 1], code))
       ELSE Commit(StartLoop(Cur))

\* initBot's 5 s timer fires: reject(new Error('Worker init timeout')).
InitTimeout ==
    /\ initState.timer
    /\ Commit(InitSettled([Cur EXCEPT !.initState.timer = FALSE], "rejected", "timeout"))

InitNext ==
    \/ \E code \in InitSources : StartBattle(code)
    \/ \E ok \in BOOLEAN, code \in InitSources : OtherInit(ok, code)
    \/ InitTimeout
    \/ WorkerStep
    \/ HostReceive
    \/ TickStart
    \/ ActionTimeout
    \/ \E act \in OtherActions : OtherResolve(act)

SpecInit == BeforeBattle /\ [][InitNext]_vars

(***************************************************************************)
(* SpecLive: the last ticks of a match under fair timers.  The match is    *)
(* MaxLive ticks before MAX_TICKS; an awaited getAction is resolved by the *)
(* worker's reply, which may never come, or by the call's own 50 ms timer. *)
(* The timers are fair: a timer set by setTimeout and not cleared fires    *)
(* (scheduleTick, GameLoop.ts 58; getAction, bot-worker.ts 228-231).       *)
(***************************************************************************)
MaxLive == 2

LiveDecisions ==
    { [move |-> 1, aim |-> 1, action |-> "null"],
      [move |-> 0, aim |-> 0, action |-> "melee"],
      [move |-> 0, aim |-> 0, action |-> "ranged"] }

\* Both agents can be knocked out by one hit, next to each other or at their spawns.
LiveStarts ==
    { MidMatch(MAX_TICKS - MaxLive, at, v) : at \in Layouts, v \in {w \in Vitals : w.hp = <<5, 5>>} }

LiveInit ==
    /\ HostInit /\ agent = 0
    /\ gs \in LiveStarts
    /\ eng = EngStart(gs)
    /\ run2 = gs

\* The tick timer set by scheduleTick fires.
LiveTickTimer ==
    /\ eng.pc = "idle" /\ eng.running
    /\ gs' = TickHead(gs)
    /\ eng' = [eng EXCEPT !.pc = "await", !.bot = 0, !.ran = @ + 1,
                          !.prevPositions = Positions(gs)]
    /\ UNCHANGED <<hostVars, run2>>

\* The awaited getAction resolves with d, by the timer (byTimer = 1) or not.
LiveResolve(d, rnd, byTimer) ==
    /\ eng.pc = "await"
    /\ IF eng.bot = 0
       THEN /\ eng' = [eng EXCEPT !.actions[0] = d, !.bot = 1, !.timeouts = @ + byTimer]
            /\ UNCHANGED gs
       ELSE \E actions \in {[eng.actions EXCEPT ![1] = d]} :
                \E g \in {TickBody(gs, actions, rnd)} :
                    /\ gs' = g
                    /\ eng' = [EngPublish(eng, actions, g) EXCEPT !.timeouts = @ + byTimer]
    /\ UNCHANGED <<hostVars, run2>>

\* The worker's reply arrives within 50 ms.
LiveReply(d, rnd) == LiveResolve(d, rnd, 0)

TimerCleared == FALSE /\ UNCHANGED vars

\* The 50 ms timer of the awaited getAction fires: the neutral action.
LiveTimeout == \E rnd \in Draws(gs) : LiveResolve(EngNeutral, rnd, 1)

LiveNext ==
    \/ LiveTickTimer
    \/ \E d \in LiveDecisions : \E rnd \in Draws(gs) : LiveReply(d, rnd)
    \/ LiveTimeout

SpecLive ==
    LiveInit /\ [][LiveNext]_vars /\ WF_vars(LiveTickTimer) /\ WF_vars(LiveTimeout)

(***************************************************************************)
(* SpecLoop: the game loop among the other callbacks of the page: stop()   *)
(* and the render frames run between the turns of tick, also while tick is *)
(* suspended in an await.                                                  *)
(***************************************************************************)
LoopDecisions == LiveDecisions \cup {EngNeutral}

LoopStarts ==
    { MidMatch(t, at, v) : t \in StartTicks, at \in Layouts,
                           v \in {w \in Vitals : w.hp = <<1000, 1000>>} }

LoopInit ==
    /\ HostInit /\ agent = 0
    /\ gs \in LoopStarts
    /\ eng = EngStart(gs)
    /\ run2 = gs

\* The tick timer fires: tick() up to `await this.getAction(0, this.state)`; the
\* closure builds agent 0's request before it suspends.
LoopTickTimer ==
    /\ eng.pc = "idle" /\ eng.running /\ eng.ran < MaxRun
    /\ gs' = TickHead(gs)
    /\ eng' = [eng EXCEPT !.pc = "await", !.bot = 0, !.ran = @ + 1,
                          !.prevPositions = Positions(gs),
                          !.requests[0] = StoreFields(gs')]
    /\ UNCHANGED <<hostVars, run2>>

\* The awaited getAction resolves with d: tick() resumes, for agent 0 up to the
\* await of agent 1's decision, for agent 1 to its end.
LoopResolve(d, rnd) ==
    /\ eng.pc = "await"
    /\ IF eng.bot = 0
       THEN /\ eng' = [eng EXCEPT !.actions[0] = d, !.bot = 1,
                                  !.requests[1] = StoreFields(gs)]
            /\ UNCHANGED gs
       ELSE \E actions \in {[eng.actions EXCEPT ![1] = d]} :
                \E g \in {TickBody(gs, actions, rnd)} :
                    /\ gs' = g
                    /\ eng' = EngPublish(eng, actions, g)
    /\ UNCHANGED <<hostVars, run2>>

\* GameLoop.stop(), from a click handler.
LoopStop ==
    /\ eng.running
    /\ eng' = [eng EXCEPT !.running = FALSE, !.stopped = TRUE]
    /\ UNCHANGED <<hostVars, gs, run2>>

\* A frame of renderLoop reads the store.
LoopFrame ==
    /\ eng.frame # [read |-> Counters(gs), applied |-> eng.applied]
    /\ eng' = [eng EXCEPT !.frame = [read |-> Counters(gs), applied |-> eng.applied]]
    /\ UNCHANGED <<hostVars, gs, run2>>

LoopNext ==
    \/ LoopTickTimer
    \/ \E d \in LoopDecisions : \E rnd \in Draws(gs) : LoopResolve(d, rnd)
    \/ LoopStop
    \/ LoopFrame

SpecLoop == LoopInit /\ [][LoopNext]_vars

(***************************************************************************)
(* Claims about the sandbox host (checked under Spec).                     *)
(***************************************************************************)
Resolved(k) == resolution[k].how # "none"
Invalid(code) == validateCode(code) # "null" \/ ~compileThinkFn(code)

\* C1: the action that resolves the agent's k-th getAction is the worker's reply
\* to the k-th tick request or the neutral default; a reply to request k that
\* arrives after k's timer has fired never resolves a later request.
C1_ReplyOfSameRequest ==
    \A k \in Reqs :
        Resolved(k) =>
            \/ resolution[k].how = "reply" /\ resolution[k].req = k
            \/ resolution[k].how \in {"timer", "notready"}
               /\ resolution[k].action = NeutralAction

\* C2: when the worker never replies to tick request k (think does not return),
\* the getAction promise of request k resolves, by its timer, with the neutral
\* action.
C2_NoReplyYieldsNeutral ==
    \A k \in Reqs :
        (answered[k].outcome = "hang" /\ Resolved(k)) =>
            resolution[k].how = "timer" /\ resolution[k].action = NeutralAction

\* C3: a think call that throws or returns a non-object for tick request k yields
\* the neutral action for the agent in that tick.
C3_FaultYieldsNeutral ==
    \A k \in Reqs :
        (answered[k].outcome \in {"throw", "junk"} /\ Resolved(k)) =>
            resolution[k].action = NeutralAction

\* C4: a recompile request with a forbidden or non-compiling source is answered
\* recompile_error, leaves the bound function unchanged, and its hotSwapCode call
\* resolves false.
C4_InvalidSwapRefused ==
    \A c \in Calls :
        (swaps[c].state # "unused" /\ Invalid(swaps[c].code)) =>
            /\ swaps[c].verdict # "recompiled"
            /\ thinkFn # c
            /\ swaps[c].state # "true"

\* C5: a hotSwapCode call that resolved false (worker's refusal, 5 s timer, or
\* worker not ready) is never bound by the worker.
C5_FailedSwapNeverBound ==
    \A c \in Calls : swaps[c].state = "false" => swaps[c].verdict # "recompiled"

\* C6: a hotSwapCode call resolves true only if the worker compiled and bound the
\* source of that call's own recompile request.
C6_TrueOnlyOnOwnVerdict ==
    \A c \in Calls : swaps[c].state = "true" => swaps[c].verdict = "recompiled"

\* Request k was posted before the host received 'recompiled' for call c.
PostedBeforeConfirmation(k, c) ==
    /\ k <= loop.posted
    /\ swaps[c].confirmedAt = -1 \/ k <= swaps[c].confirmedAt

KoEventFor(i) == \E n \in 1..Len(gs.events) : gs.events[n].type = "ko" /\ gs.events[n].target = i

\* C8: two runs from the same state, fed the same decisions, have the same
\* events in every tick, and end with the same hp for both agents and the same
\* winner.
C8_TwoRunsAgree ==
    /\ run2.events = gs.events
    /\ run2.gameOver = gs.gameOver
    /\ gs.gameOver => /\ \A i \in Bots : run2.bots[i].hp = gs.bots[i].hp
                      /\ run2.winner = gs.winner

\* C9: in every state published to onTick each agent has 0 <= hp <= BOT_HP and
\* 0 <= energy <= BOT_ENERGY.
C9_PublishedVitalsInRange ==
    eng.published > 0 =>
        \A i \in Bots : /\ 0 <= eng.seen[i].hp /\ eng.seen[i].hp <= BOT_HP
                        /\ 0 <= eng.seen[i].energy /\ eng.seen[i].energy <= BOT_ENERGY

\* A published state in which checkKO has clamped an hp that damage had
\* brought below 0.
C9_Witness ==
    /\ eng.published > 0
    /\ \E i \in Bots : /\ eng.seen[i].hp = 0
                       /\ gs.bots[i].damageTaken > 5
                       /\ KoEventFor(i)

\* C10: an agent that has hp <= 0 at a tick's termination check is named by a
\* ko event of that tick, the match is over and the winner is the other agent.
C10_KnockoutOtherWins ==
    \A i \in Bots :
        (eng.published > 0 /\ gs.bots[i].hp <= 0) =>
            /\ gs.gameOver
            /\ KoEventFor(i)
            /\ gs.winner = 1 - i

\* C11: a tick MAX_TICKS whose termination check finds no agent with hp <= 0 ends
\* the match in that tick, the winner being the agent with strictly higher hp and
\* nobody on equal hp; a match that is over before tick MAX_TICKS has a knockout.
C11_MaxTicksDecidesByHp ==
    eng.published > 0 =>
        /\ (gs.tick = MAX_TICKS /\ \A i \in Bots : gs.bots[i].hp > 0) =>
               /\ gs.gameOver /\ ~eng.running /\ eng.gameOverCalls = 1
               /\ gs.winner = IF gs.bots[0].hp > gs.bots[1].hp THEN 0
                              ELSE IF gs.bots[1].hp > gs.bots[0].hp THEN 1
                              ELSE None
        /\ (gs.tick < MAX_TICKS /\ gs.gameOver) => \E i \in Bots : KoEventFor(i)

\* Tick MAX_TICKS has ended a match without knockout on equal hp, with no winner.
C11_Witness ==
    /\ eng.published > 0 /\ gs.tick = MAX_TICKS /\ gs.gameOver
    /\ gs.bots[0].hp = gs.bots[1].hp /\ gs.bots[0].hp > 0
    /\ gs.winner = None
    /\ ~ \E i \in Bots : KoEventFor(i)

\* C12: a started match terminates: under fair timers gameOver is eventually
\* true, and state.tick never exceeds MAX_TICKS, whether the agents' workers
\* answer or not.
C12_MatchTerminates == [](gs.tick <= MAX_TICKS) /\ <>(gs.gameOver /\ ~eng.running)

\* A match ended at tick MAX_TICKS in which every decision of the last ticks came
\* from getAction's timer (the workers never answered).
C12_Witness ==
    /\ gs.gameOver /\ gs.tick = MAX_TICKS /\ eng.pc = "over"
    /\ eng.timeouts = 2 * MaxLive

(***************************************************************************)
(* Claims about the game loop among the page's callbacks (SpecLoop).       *)
(***************************************************************************)
\* The events processAction emits for the acting agent.
ActionEvents ==
    {"miss", "melee_hit", "ranged_fire", "special_use", "special_hit", "dash_use",
     "heal_use", "trap_place"}

\* C13: in a tick both agents' requests are built from the same store state,
\* the store is not changed before both decisions are in, and agent 0's
\* movement, facing and action are applied before agent 1's.
C13_SameSnapshotThenInOrder ==
    /\ (eng.pc = "await" /\ eng.bot = 1) => eng.requests[1] = eng.requests[0]
    /\ eng.pc = "await" => StoreFields(gs) = eng.requests[0]
    /\ \A m, n \in 1..Len(gs.events) :
           (m < n /\ gs.events[m].type \in ActionEvents /\ gs.events[n].type \in ActionEvents)
               => gs.events[m].attacker <= gs.events[n].attacker

\* Both agents acted in one tick: agent 0's hit is recorded before agent 1's.
C13_Witness ==
    /\ eng.published > 0 /\ eng.pc = "idle"
    /\ \E m, n \in 1..Len(gs.events) :
           /\ m < n
           /\ gs.events[m].type = "melee_hit" /\ gs.events[m].attacker = 0
           /\ gs.events[n].type = "melee_hit" /\ gs.events[n].attacker = 1

\* C14: what a reader running between two turns of the event loop reads of the
\* store's tick counter and event list is never ahead of the agents' state: it is
\* the counter and the events of the last tick whose body has run.
C14_ReaderNeverAhead == eng.frame.read = eng.frame.applied

\* C15: after stop() has returned no tick body runs: the store is not mutated and
\* onTick is not invoked again.
C15_NothingAfterStop == eng.late = 0

(***************************************************************************)
(* Claims about match setup (SpecInit).                                    *)
(***************************************************************************)
\* The source of the agent's initBot call is forbidden or does not compile.
InvalidInit ==
    /\ initState.promise # "none"
    /\ \E code \in InitSources : code.id = currentCode /\ Invalid(code)

\* C16 (as stated): for a source that matches a forbidden pattern or fails to
\* compile initBot rejects carrying the worker's error, no decision function is
\* bound in the worker and startBattle does not start the game loop.
C16_InvalidInitRejectsWithWorkerError ==
    InvalidInit =>
        /\ initState.promise \in {"pending", "rejected"}
        /\ initState.promise = "pending" => initState.timer
        /\ initState.promise = "rejected" => initState.error = "worker"
        /\ thinkFn = NullFn
        /\ loop.pc \in {"init", "failed"}

\* C16 (amended): the rejection carries the worker's error, or 'Worker init
\* timeout' when the 5 s timer fires before the worker's answer is received.
C16_InvalidInitRejects ==
    InvalidInit =>
        /\ initState.promise \in {"pending", "rejected"}
        /\ initState.promise = "pending" => initState.timer
        /\ initState.promise = "rejected" => initState.error \in {"worker", "timeout"}
        /\ thinkFn = NullFn
        /\ loop.pc \in {"init", "failed"}

\* initBot was called with a forbidden source and rejected with the worker's error.
C16_Witness ==
    /\ InvalidInit /\ currentCode = SrcEval.id
    /\ initState.promise = "rejected" /\ initState.error = "worker"
    /\ loop.pc = "failed"

(***************************************************************************)
(* Claims about teardown of the sandbox host (SpecFair).                   *)
(***************************************************************************)
\* C17: after terminate() an outstanding getAction resolves with the neutral
\* action by its own 50 ms timer and an outstanding hotSwapCode resolves false by
\* its own 5 s timer; neither stays pending forever.
C17_OutstandingCallsTimeOut ==
    /\ \A k \in Reqs :
           (terminated.called /\ actionTimer = k)
               ~> (resolution[k].how = "timer" /\ resolution[k].action = NeutralAction)
    /\ \A c \in Calls :
           (terminated.called /\ swaps[c].state = "pending") ~> (swaps[c].state = "false")

\* A getAction and a hotSwapCode that were outstanding when terminate() was
\* called have both been resolved by their timers.
C17_Witness ==
    /\ terminated.called /\ terminated.req # 0
    /\ resolution[terminated.req].how = "timer"
    /\ \E c \in terminated.calls : swaps[c].state = "false" /\ ~swaps[c].timer

(***************************************************************************)
(* Claims about the sanitising of a decision (SpecSanitize).               *)
(***************************************************************************)
Finite(x) == x.t = "number"
IsNumber(x) == x.t \in {"number", "Infinity"}

\* C18: whatever the decision code returns, the action getAction resolves with has
\* an action among the seven names or null, and finite numbers as move.x, move.y,
\* aim.x and aim.y, each component that was missing or not a number being 0.
C18_DeliveredActionIsFinite ==
    \A k \in Reqs :
        resolution[k].how # "none" =>
            LET a == resolution[k].action
            IN /\ a.action \in ActionNames \cup {"null"}
               /\ \A j \in 1..2 : Finite(a.move[j]) /\ Finite(a.aim[j])
               /\ resolution[k].how = "reply" =>
                      \A j \in 1..2 :
                          /\ ~IsNumber(eng.raw.move[j]) => a.move[j] = Num(0)
                          /\ ~IsNumber(eng.raw.aim[j]) => a.aim[j] = Num(0)

(***************************************************************************)
(* Claims about attacks and hits (SpecCombat).                             *)
(***************************************************************************)
\* The gate of agent i's attack a, as processMelee and processSpecial test it on
\* the store before: alone, or in a tick after processAction has counted the
\* cooldowns down and regenerated the energy.
GatePassed(i, a, name, cost) ==
    LET bot == eng.before.bots[i]
    IN \/ /\ eng.op = a /\ eng.bot = i
          /\ bot.cooldowns[name] = 0 /\ bot.energy >= cost
       \/ /\ eng.op = "tick" /\ eng.actions[i].action = a
          /\ Dec(bot.cooldowns[name]) = 0 /\ Min(100, bot.energy + ENERGY_REGEN) >= cost

Attacked(i) ==
    \/ GatePassed(i, "melee", "melee", MELEE_ENERGY)
    \/ GatePassed(i, "special", "special", SPECIAL_ENERGY)

\* C19: a melee or special that passes its cooldown and energy gate leaves the
\* attacker with attackCommit > 0 and momentum = 0 when the tick ends, whether
\* it hit, was out of range or was outside the facing arc.
C19_AttackCommits ==
    \A i \in Bots :
        Attacked(i) => gs.bots[i].status.attackCommit > 0 /\ gs.bots[i].momentum = 0

\* In a tick, agent 0 with momentum swung at an agent in range behind its back:
\* a miss, and the agent is committed without momentum.
C19_Witness ==
    /\ eng.op = "tick" /\ GatePassed(0, "melee", "melee", MELEE_ENERGY)
    /\ Abs(eng.before.bots[0].position - eng.before.bots[1].position) <= MELEE_RANGE
    /\ eng.before.bots[0].facing = -1 /\ eng.before.bots[0].momentum > 0
    /\ \E n \in 1..Len(gs.events) : gs.events[n].type = "miss" /\ gs.events[n].attacker = 0
    /\ gs.bots[0].status.attackCommit > 0 /\ gs.bots[0].momentum = 0

HitBase(type) ==
    CASE type = "melee_hit" -> MELEE_DAMAGE
      [] type = "special_hit" -> SPECIAL_DAMAGE
      [] type = "ranged_hit" -> RANGED_DAMAGE
      [] OTHER -> 0

\* The hit of the operation applied last, if it hit.
HitsOfOp ==
    { n \in (Len(eng.before.events) + 1)..Len(gs.events) :
          /\ eng.op \in {"melee", "special", "hits"}
          /\ gs.events[n].type \in {"melee_hit", "special_hit", "ranged_hit"} }

\* C20: a melee, special or projectile hit lowers the target's hp by the base
\* damage of its kind when the target is not defending and by
\* round(base x DEFEND_REDUCTION) when it is.
C20_HitDamage ==
    \A n \in HitsOfOp :
        LET e == gs.events[n]
            target == eng.before.bots[e.target]
        IN gs.bots[e.target].hp =
               target.hp - (IF target.isDefending
                            THEN (2 * HitBase(e.type) * DEFEND_REDUCTION + Unit) \div (2 * Unit)
                            ELSE HitBase(e.type))

\* A projectile has hit a defending agent: RANGED_DAMAGE 8 x 0.35 = 2.8, 3 hp lost.
C20_Witness ==
    /\ eng.op = "hits" /\ eng.before.bots[1].isDefending
    /\ \E n \in HitsOfOp : gs.events[n].type = "ranged_hit" /\ gs.events[n].target = 1
    /\ gs.bots[1].hp = eng.before.bots[1].hp - 3

(***************************************************************************)
(* Claims about the statements of a tick (SpecTrace).                      *)
(***************************************************************************)
ActiveTraps(g, i) ==
    Cardinality({n \in 1..Len(g.traps) : g.traps[n].ownerId = i /\ g.traps[n].active})

\* The tick ran: its decisions, and the store its statements worked on.
Ticked == eng.done > 0

\* C21: in every state, between the statements of a tick included, each owner
\* has at most TRAP_MAX_PER_BOT active traps.
C21_TrapCap ==
    \A i \in Bots :
        /\ ActiveTraps(gs, i) <= TRAP_MAX_PER_BOT
        /\ \A n \in 1..Len(eng.trace) : ActiveTraps(eng.trace[n], i) <= TRAP_MAX_PER_BOT

\* Agent 0, with the energy and no cooldown, asked for a third trap and got none.
C21_Witness ==
    /\ Ticked /\ eng.actions[0].action = "trap"
    /\ ActiveTraps(eng.before, 0) = TRAP_MAX_PER_BOT
    /\ eng.before.bots[0].cooldowns.trap = 0 /\ eng.before.bots[0].energy >= TRAP_ENERGY
    /\ ActiveTraps(gs, 0) = TRAP_MAX_PER_BOT
    /\ Len(gs.traps) = Len(eng.before.traps)

ActionCost(a) ==
    CASE a = "melee" -> MELEE_ENERGY
      [] a = "ranged" -> RANGED_ENERGY
      [] a = "special" -> SPECIAL_ENERGY
      [] a = "defend" -> DEFEND_ENERGY_PER_TICK
      [] a = "dash" -> DASH_ENERGY
      [] a = "heal" -> HEAL_ENERGY
      [] a = "trap" -> TRAP_ENERGY

\* Agent i's action a does not pass its gate in the tick applied to g: the
\* cooldown, counted down by processAction, is still running, the energy, after
\* the regeneration, is below the cost, or the trap cap is reached.
GateFails(g, i, a) ==
    LET bot == g.bots[i]
    IN \/ a # "defend" /\ Dec(bot.cooldowns[a]) > 0
       \/ Min(100, bot.energy + ENERGY_REGEN) < ActionCost(a)
       \/ a = "trap" /\ ActiveTraps(g, i) >= TRAP_MAX_PER_BOT

\* C22: a requested action that fails its gate leaves the store, after every
\* statement of the tick, as action = null would.
C22_FailedGateIsNull ==
    \A i \in Bots :
        (Ticked /\ eng.actions[i].action # "null"
                /\ GateFails(eng.before, i, eng.actions[i].action)) =>
            eng.trace = TickTrace(TickHead(eng.before),
                                  [eng.actions EXCEPT ![i].action = "null"], eng.rnd)

\* Agent 0 asked for a heal while its heal was cooling down: no heal_use event,
\* and its energy is the regenerated one.
C22_Witness ==
    /\ Ticked /\ eng.actions[0].action = "heal"
    /\ eng.before.bots[0].cooldowns.heal > 1
    /\ \A n \in 1..Len(gs.events) : gs.events[n].type # "heal_use"
    /\ gs.bots[0].energy = Min(100, eng.before.bots[0].energy + ENERGY_REGEN)
    /\ gs.bots[0].cooldowns.heal = eng.before.bots[0].cooldowns.heal - 1

SightEvents(i, type) ==
    Cardinality({n \in 1..Len(gs.events) : gs.events[n].type = type /\ gs.events[n].attacker = i})

\* C23: a tick emits for each agent exactly one lost_sight event if the agent's
\* enemyVisible flag went from true to false in it, exactly one gained_sight
\* event if it went from false to true, and no sight event otherwise.
C23_SightEvents ==
    Ticked =>
        \A i \in Bots :
            LET was == eng.before.enemyVisible[i]
                is == gs.enemyVisible[i]
            IN /\ SightEvents(i, "lost_sight") = (IF was /\ ~is THEN 1 ELSE 0)
               /\ SightEvents(i, "gained_sight") = (IF ~was /\ is THEN 1 ELSE 0)

\* Agent 0 had its back to the enemy and turned: one gained_sight event.
C23_Witness ==
    /\ Ticked /\ ~eng.before.enemyVisible[0] /\ gs.enemyVisible[0]
    /\ SightEvents(0, "gained_sight") = 1 /\ SightEvents(0, "lost_sight") = 0

\* Positions a hidden enemy may be at.
HiddenSpots == { -12 * Unit, -1 * Unit, 0, 2 * Unit, 10 * Unit }

\* C24: while enemyVisible[i] is false the enemy view of agent i has visible =
\* false and its position is lastKnownEnemyPos[i], which the tick did not write;
\* the view of a store that differs only in the enemy's position has the same
\* position, distance and angle.
C24_HiddenEnemyView ==
    \A i \in Bots :
        ~gs.enemyVisible[i] =>
            LET v == getEnemyStates(gs, i)
            IN /\ ~v.visible
               /\ v.position = gs.lastKnownEnemyPos[i]
               /\ gs.lastKnownEnemyPos[i] = eng.before.lastKnownEnemyPos[i]
               /\ \A p \in HiddenSpots :
                      LET w == getEnemyStates([gs EXCEPT !.bots[1 - i].position = p], i)
                      IN /\ w.position = v.position
                         /\ w.distance = v.distance
                         /\ w.angle = v.angle

\* After a tick agent 0 does not see the enemy, which is not where agent 0 saw
\* it last: the view has the last known position.
C24_Witness ==
    /\ Ticked /\ ~gs.enemyVisible[0]
    /\ gs.bots[1].position # gs.lastKnownEnemyPos[0]
    /\ getEnemyStates(gs, 0).position = gs.lastKnownEnemyPos[0]
    /\ getEnemyStates(gs, 0).distance # Abs(gs.bots[0].position - gs.bots[1].position)

(***************************************************************************)
(* Claims about the callbacks of the game loop (SpecLive).                 *)
(***************************************************************************)
\* Increments of state.tick since the match of LiveStarts was taken up.
LiveTicks == gs.tick - (MAX_TICKS - MaxLive)

OnTickPerIncrement ==
    /\ eng.published = LiveTicks - (IF eng.pc = "await" THEN 1 ELSE 0)
    /\ (eng.published > 0 /\ eng.pc # "await") =>
           ((gs.bots[0].hp <= 0 \/ gs.bots[1].hp <= 0 \/ gs.tick >= MAX_TICKS) => gs.gameOver)
    /\ eng.gameOverCalls = (IF gs.gameOver THEN 1 ELSE 0)
    /\ gs.gameOver => ~eng.running /\ eng.pc = "over"

\* C25: onTick is called once per increment of the tick counter, after the
\* termination check of that tick; in the tick that sets gameOver onGameOver is
\* called once, and after it no tick is scheduled or run.
C25_CallbacksPerTick ==
    /\ []OnTickPerIncrement
    /\ [][gs.gameOver => (gs' = gs /\ eng' = eng)]_vars

\* A knockout before MAX_TICKS: one onTick per increment, one onGameOver.
C25_Witness ==
    /\ gs.gameOver /\ gs.tick < MAX_TICKS /\ LiveTicks > 0
    /\ eng.published = LiveTicks /\ eng.gameOverCalls = 1 /\ ~eng.running

(***************************************************************************)
(* Claims about the evolution manager (SpecEvolve).                        *)
(***************************************************************************)
\* C26: after dispose() the manager makes no onCodeUpdate call, whether dispose()
\* came while a request was in its fetch or in its body-parse.
C26_NoUpdateAfterDispose == eng.late = 0

\* The body-parse of a response with code completed after dispose(), and no
\* onCodeUpdate call was made for it.
C26_Witness == eng.disposed /\ eng.answered > 0 /\ eng.late = 0

(***************************************************************************)
(* Claims about hits inside a tick (SpecTrace).                            *)
(***************************************************************************)
\* C27: after every statement of a tick that changes an hp (an agent's action
\* with its burn tick, the projectile hits, the pickups, the traps) each agent's
\* hp is within 0..BOT_HP.
C27_HpInRangeAtEveryStep ==
    \A n \in 1..Len(eng.trace) :
        \A i \in Bots : eng.trace[n].bots[i].hp >= 0 /\ eng.trace[n].bots[i].hp <= BOT_HP

\* The melee and special hits of the tick.
HitsOfTick ==
    { n \in 1..Len(gs.events) : Ticked /\ gs.events[n].type \in {"melee_hit", "special_hit"} }

\* Agent i asked to defend in the tick and passed processDefend's energy gate.
DefendGate(i) ==
    /\ eng.actions[i].action = "defend"
    /\ Min(100, eng.before.bots[i].energy + ENERGY_REGEN) >= DEFEND_ENERGY_PER_TICK

\* C28: a melee or special hit of a tick is defend-reduced if and only if its
\* target passed its defend gate in that same tick, whichever agent attacks.
C28_DefendLastsOneTick ==
    \A n \in HitsOfTick :
        LET e == gs.events[n]
        IN (e.damage < HitBase(e.type)) <=> DefendGate(e.target)

\* Agent i asked for a special in the tick and passed processSpecial's gate.
SpecialGate(i) ==
    /\ Ticked /\ eng.actions[i].action = "special"
    /\ Dec(eng.before.bots[i].cooldowns.special) = 0
    /\ Min(100, eng.before.bots[i].energy + ENERGY_REGEN) >= SPECIAL_ENERGY

\* The store before agent i's action of the tick.
StoreBefore(i) == IF i = 0 THEN TickHead(eng.before) ELSE eng.trace[1]

\* Agent i's action of the tick took hp from the other agent or set it burning.
Harmed(i) ==
    \/ eng.trace[i + 1].bots[1 - i].hp < StoreBefore(i).bots[1 - i].hp
    \/ eng.trace[i + 1].bots[1 - i].status.burning > StoreBefore(i).bots[1 - i].status.burning

\* C29: a special that passes its gate takes hp from the target or sets it
\* burning only if the target is within SPECIAL_RANGE and the dot product of the
\* attacker's facing and the direction to the target is at least 0.3.
C29_SpecialNeedsRangeAndFacing ==
    \A i \in Bots :
        (SpecialGate(i) /\ Harmed(i)) =>
            LET bot == eng.trace[i + 1].bots[i]
                enemy == eng.trace[i + 1].bots[1 - i]
            IN /\ Abs(bot.position - enemy.position) <= SPECIAL_RANGE
               /\ bot.facing * Sgn(enemy.position - bot.position) * 10 >= 3

\* Agent i asked for a melee in the tick and passed processMelee's gate.
MeleeGate(i) ==
    /\ Ticked /\ eng.actions[i].action = "melee"
    /\ Dec(eng.before.bots[i].cooldowns.melee) = 0
    /\ Min(100, eng.before.bots[i].energy + ENERGY_REGEN) >= MELEE_ENERGY

\* The events that agent i's action of the tick pushed.
EventsOfAction(i) ==
    { n \in (Len(StoreBefore(i).events) + 1)..Len(eng.trace[i + 1].events) :
          eng.trace[i + 1].events[n].attacker = i }

MissesOf(i) ==
    Cardinality({ n \in EventsOfAction(i) : eng.trace[i + 1].events[n].type = "miss" })

\* C30: a melee or special that passes its gate emits exactly one miss event if
\* it takes no hp from the target and no miss event if it does.
C30_MissIffNoDamage ==
    \A i \in Bots :
        (MeleeGate(i) \/ SpecialGate(i)) =>
            MissesOf(i) = (IF eng.trace[i + 1].bots[1 - i].hp < StoreBefore(i).bots[1 - i].hp
                           THEN 0 ELSE 1)

(***************************************************************************)
(* Claims about commitment and regeneration over ticks (SpecStatus).       *)
(***************************************************************************)
\* Entry k of the history is the state after a tick (entry 1 is the start).
TicksOfHist == 2..Len(eng.hist)

\* Agent 0's attack named name passed its gate in the tick of entry k.
Swung(k, name) ==
    eng.hist[k].bots[0].actionsUsed[name] > eng.hist[k - 1].bots[0].actionsUsed[name]

\* Agent 0 attacked in none of the entries from..to.
NoAttackIn(from, to) ==
    \A k \in from..to : ~Swung(k, "melee") /\ ~Swung(k, "special")

\* Agent 0's movement in the tick of entry k was commit-penalised: its speed is
\* the base speed (halved while slowed) times COMMIT_SPEED_MULT, its momentum 0.
Penalised(k) ==
    LET base == IF eng.hist[k - 1].bots[0].status.slowed > 0 THEN BOT_SPEED \div 2
                                                             ELSE BOT_SPEED
    IN /\ Abs(eng.hist[k].bots[0].velocity) = Mul(base, COMMIT_SPEED_MULT)
       /\ eng.hist[k].bots[0].momentum = 0

CommitTicks(name) == IF name = "melee" THEN MELEE_COMMIT_TICKS ELSE SPECIAL_COMMIT_TICKS

\* C31: after a melee (special) that passed its gate in a tick, and as long as
\* the agent does not attack again, its movement is commit-penalised in each of
\* the next 3 (4) ticks and not penalised in the tick after those.
C31_CommitPenaltyLasts ==
    \A k \in TicksOfHist : \A name \in {"melee", "special"} :
        \A j \in 1..(CommitTicks(name) + 1) :
            (Swung(k, name) /\ k + j <= Len(eng.hist) /\ NoAttackIn(k + 1, k + j))
                => (Penalised(k + j) <=> j <= CommitTicks(name))

\* A special in the first tick, no attack in the next five: four penalised
\* ticks, then one with the momentum bonus back.
C31_Witness ==
    /\ Len(eng.hist) = 7 /\ Swung(2, "special") /\ NoAttackIn(3, 7)
    /\ \A k \in 3..6 : Penalised(k)
    /\ ~Penalised(7) /\ Abs(eng.hist[7].bots[0].velocity) >= BOT_SPEED

\* Agent i had less than BOT_HP before the tick of entry k and has
\* OOC_REGEN_RATE more (at most BOT_HP) after it.
Regenerated(i, k) ==
    eng.hist[k].bots[i].hp = Min(BOT_HP, eng.hist[k - 1].bots[i].hp + OOC_REGEN_RATE)

\* Ticks from agent i's last combat contact to the tick of entry k.
SinceContact(i, k) == eng.hist[k].tick - eng.hist[k - 1].bots[i].lastCombatTick

\* C32 as stated: an agent below BOT_HP regenerates in a tick if and only if it
\* is not burning and more than OOC_REGEN_DELAY ticks have passed since its last
\* combat contact.
C32_RegenAfterMoreThanDelay ==
    \A k \in TicksOfHist : \A i \in Bots :
        eng.hist[k - 1].bots[i].hp < BOT_HP =>
            (Regenerated(i, k) <=> (/\ eng.hist[k - 1].bots[i].status.burning = 0
                                    /\ SinceContact(i, k) > OOC_REGEN_DELAY))

\* C32, amended: an agent below BOT_HP regenerates in a tick if and only if it
\* is not burning and at least OOC_REGEN_DELAY ticks have passed since its last
\* combat contact.
C32_RegenFromDelayOn ==
    \A k \in TicksOfHist : \A i \in Bots :
        eng.hist[k - 1].bots[i].hp < BOT_HP =>
            (Regenerated(i, k) <=> (/\ eng.hist[k - 1].bots[i].status.burning = 0
                                    /\ SinceContact(i, k) >= OOC_REGEN_DELAY))

\* Agent 0 regenerates in the tick that is exactly OOC_REGEN_DELAY ticks after
\* its last contact and not in the tick before; agent 1 burnt and does not.
C32_Witness ==
    \E k \in TicksOfHist :
        /\ k > 2 /\ SinceContact(0, k) = OOC_REGEN_DELAY
        /\ Regenerated(0, k) /\ ~Regenerated(0, k - 1)
        /\ eng.hist[1].bots[1].status.burning > 0 /\ ~Regenerated(1, k)

(***************************************************************************)
(* Claims about counters, pickups, traps, projectiles and the arena's      *)
(* bound (SpecField).                                                      *)
(***************************************************************************)
\* The value each ability sets its cooldown to.
CooldownOf ==
    [melee |-> MELEE_COOLDOWN, ranged |-> RANGED_COOLDOWN, special |-> SPECIAL_COOLDOWN,
     dash |-> DASH_COOLDOWN, heal |-> HEAL_COOLDOWN, trap |-> TRAP_COOLDOWN]

CountersInRange(bot) ==
    /\ \A a \in DOMAIN CooldownOf : bot.cooldowns[a] >= 0 /\ bot.cooldowns[a] <= CooldownOf[a]
    /\ bot.status.burning >= 0 /\ bot.status.burning <= BURN_DURATION
    /\ bot.status.slowed >= 0 /\ bot.status.slowed <= TRAP_SLOW_DURATION
    /\ bot.status.attackCommit >= 0
    /\ bot.status.attackCommit <= Max(MELEE_COMMIT_TICKS, SPECIAL_COMMIT_TICKS)

\* C33: after every statement of every tick each agent's cooldowns and its
\* burning, slowed and attackCommit counters are at least 0 and at most the
\* value the ability or effect sets them to.
C33_CountersInRange ==
    \A n \in 1..Len(eng.trace) : \A i \in Bots : CountersInRange(eng.trace[n].bots[i])

\* After two ticks: a special of the first tick that hit (cooldown and commitment
\* one below their start, the target has burnt twice) and a trap that slowed
\* agent 1 at the end of the first tick.
C33_Witness ==
    /\ eng.done = 2
    /\ gs.bots[0].cooldowns.special = SPECIAL_COOLDOWN - 1
    /\ gs.bots[0].status.attackCommit = SPECIAL_COMMIT_TICKS - 1
    /\ gs.bots[1].status.burning = BURN_DURATION - 2
    /\ gs.bots[1].status.slowed = TRAP_SLOW_DURATION - 1

ActivePickups(g) == Cardinality({n \in 1..Len(g.pickups) : g.pickups[n].active})

\* C34: after every statement of every tick at most MAX_PICKUPS pickups are
\* active, and a tick adds a pickup (one at most) only if its tick counter is a
\* positive multiple of PICKUP_INTERVAL and fewer than MAX_PICKUPS pickups were
\* active when trySpawnPickup ran.
C34_PickupCap ==
    /\ \A n \in 1..Len(eng.trace) : ActivePickups(eng.trace[n]) <= MAX_PICKUPS
    /\ Ticked =>
          /\ Len(gs.pickups) <= Len(eng.before.pickups) + 1
          /\ Len(gs.pickups) > Len(eng.before.pickups) =>
                /\ gs.tick > 0 /\ gs.tick % PICKUP_INTERVAL = 0
                /\ ActivePickups(eng.trace[5]) < MAX_PICKUPS

\* Tick 100, begun with two active pickups, has spawned the third.
C34_Witness ==
    /\ Ticked /\ gs.tick = PICKUP_INTERVAL
    /\ ActivePickups(eng.before) = MAX_PICKUPS - 1
    /\ Len(gs.pickups) = Len(eng.before.pickups) + 1
    /\ ActivePickups(gs) = MAX_PICKUPS

\* The pickup events that checkPickups pushed in the tick for pickup n.
PickupEvents(n) ==
    Cardinality({ e \in (Len(eng.trace[5].events) + 1)..Len(eng.trace[6].events) :
                      /\ eng.trace[6].events[e].type = "pickup"
                      /\ eng.trace[6].events[e].position = eng.trace[6].pickups[n].position })

\* Pickup n was inactive when the tick's checkPickups began.
WasInactive(n) == n <= Len(eng.trace[5].pickups) /\ ~eng.trace[5].pickups[n].active

\* The agents whose hp or energy checkPickups raised in the tick.
Benefited ==
    { i \in Bots : \/ eng.trace[6].bots[i].hp > eng.trace[5].bots[i].hp
                   \/ eng.trace[6].bots[i].energy > eng.trace[5].bots[i].energy }

\* C35: in a tick each pickup produces at most one pickup event, none if it was
\* inactive, and no more agents benefit than pickups were collected.
C35_PickupCollectedOnce ==
    Ticked =>
        /\ \A n \in 1..Len(eng.trace[6].pickups) :
              PickupEvents(n) <= (IF WasInactive(n) THEN 0 ELSE 1)
        /\ Cardinality(Benefited)
              <= Cardinality({ n \in 1..Len(eng.trace[6].pickups) :
                                   ~WasInactive(n) /\ ~eng.trace[6].pickups[n].active })

\* The trap_trigger events that checkTraps pushed in the tick.
TrapEvents ==
    { e \in (Len(eng.trace[6].events) + 1)..Len(eng.trace[7].events) :
          eng.trace[7].events[e].type = "trap_trigger" }

\* The events among them that belong to trap n of the list checkTraps ran on.
EventsOfTrap(n) ==
    { e \in TrapEvents : /\ eng.trace[7].events[e].position = eng.trace[6].traps[n].position
                         /\ eng.trace[7].events[e].attacker = eng.trace[6].traps[n].ownerId }

TriggersOn(i) == Cardinality({ e \in TrapEvents : eng.trace[7].events[e].target = i })

\* C36: in a tick a trap triggers at most once, never on its owner and never
\* when inactive; an agent loses TRAP_DAMAGE hp for each trap that triggered on
\* it and has slowed = TRAP_SLOW_DURATION, an agent on which none triggered
\* loses nothing; and a trap that triggered is not in the store when the tick
\* is published.
C36_TrapTriggersOnce ==
    Ticked =>
        /\ \A e \in TrapEvents : eng.trace[7].events[e].target # eng.trace[7].events[e].attacker
        /\ \A n \in 1..Len(eng.trace[6].traps) :
              /\ Cardinality(EventsOfTrap(n)) <= 1
              /\ ~eng.trace[6].traps[n].active => EventsOfTrap(n) = {}
              /\ EventsOfTrap(n) # {} =>
                    \A m \in 1..Len(gs.traps) : gs.traps[m].id # eng.trace[6].traps[n].id
        /\ \A i \in Bots :
              /\ eng.trace[7].bots[i].hp = eng.trace[6].bots[i].hp - TRAP_DAMAGE * TriggersOn(i)
              /\ TriggersOn(i) > 0 => eng.trace[7].bots[i].status.slowed = TRAP_SLOW_DURATION
              /\ TriggersOn(i) = 0 =>
                    eng.trace[7].bots[i].status.slowed = eng.trace[6].bots[i].status.slowed

\* Agent 0's trap next to agent 1 has triggered on agent 1 and is gone; the trap
\* under agent 0's own feet and agent 1's own trap are still there.
C36_Witness ==
    /\ eng.done = 1 /\ Cardinality(TrapEvents) = 1 /\ TriggersOn(1) = 1
    /\ Len(eng.before.traps) = 3 /\ Len(gs.traps) = 2
    /\ gs.bots[1].status.slowed = TRAP_SLOW_DURATION
    /\ gs.bots[1].hp = eng.trace[6].bots[1].hp - TRAP_DAMAGE
    /\ \A m \in 1..Len(gs.traps) : gs.traps[m].active

\* The projectiles that the tick's updateProjectiles kept, and their ids.
Flying == updateProjectiles(eng.trace[4].projectiles)

IdsOf(projectiles) == { projectiles[n].id : n \in 1..Len(projectiles) }

\* The ranged_hit events that processProjectileHits pushed in the tick.
RangedHits ==
    { e \in (Len(eng.trace[4].events) + 1)..Len(eng.trace[5].events) :
          eng.trace[5].events[e].type = "ranged_hit" }

\* C37: in a tick no projectile hits its owner, each projectile that hits
\* pushes one ranged_hit and takes hp once, only from the agent it hit, and is
\* in the projectile list neither after processProjectileHits nor when the tick
\* is published, so that it cannot hit again.
C37_ProjectileHitsOnce ==
    Ticked =>
        /\ \A e \in RangedHits : eng.trace[5].events[e].target # eng.trace[5].events[e].attacker
        /\ Cardinality(IdsOf(Flying)) = Len(Flying)
        /\ Cardinality(RangedHits) = Cardinality(IdsOf(Flying) \ IdsOf(eng.trace[5].projectiles))
        /\ Len(eng.trace[5].projectiles) = Len(Flying) - Cardinality(RangedHits)
        /\ \A e \in RangedHits :
              \A m \in 1..Len(gs.projectiles) :
                  gs.projectiles[m].position # eng.trace[5].events[e].position
                      \/ gs.projectiles[m].ownerId # eng.trace[5].events[e].attacker
        /\ \A i \in Bots :
              LET hits == { e \in RangedHits : eng.trace[5].events[e].target = i }
                  lost == eng.trace[4].bots[i].hp - eng.trace[5].bots[i].hp
              IN /\ hits = {} => lost = 0
                 /\ lost <= RANGED_DAMAGE * Cardinality(hits)
                 /\ hits # {} => lost > 0

\* Of three projectiles in flight the one of agent 0 that reached agent 1 has hit
\* it and is gone; the two that are next to their own owners fly on.
C37_Witness ==
    /\ eng.done = 1 /\ Len(eng.before.projectiles) = 3
    /\ Cardinality(RangedHits) = 1 /\ eng.trace[5].bots[1].hp < eng.trace[4].bots[1].hp
    /\ Len(gs.projectiles) = 2 + (IF eng.actions[0].action = "ranged" THEN 1 ELSE 0)
    /\ \E m \in 1..Len(gs.projectiles) :
          /\ gs.projectiles[m].ownerId = 1
          /\ Abs(gs.projectiles[m].position - gs.bots[1].position) < (13 * Unit) \div 10

(***************************************************************************)
(* Claims about knockouts within a tick (SpecTrace).                       *)
(***************************************************************************)
\* C38: the winner of a finished match has hp > 0.
C38_WinnerIsAlive ==
    (gs.gameOver /\ gs.winner # None) => gs.bots[gs.winner].hp > 0

\* Agent i had hp <= 0 after some statement of the tick.
WasDown(i) == \E n \in 1..Len(eng.trace) : eng.trace[n].bots[i].hp <= 0

\* C39: an agent whose hp was at or below 0 after some statement of a tick is
\* knocked out by that tick's checkKO: the tick ends the match with a ko event
\* for it and its hp at 0.
C39_DownMeansOut ==
    \A i \in Bots :
        (Ticked /\ WasDown(i)) =>
            /\ gs.gameOver /\ gs.bots[i].hp = 0
            /\ \E e \in 1..Len(gs.events) : gs.events[e].type = "ko" /\ gs.events[e].target = i

(***************************************************************************)
(* Claim about the arena's bound (SpecField).                              *)
(***************************************************************************)
\* C40: in every published state each agent's position is within
\* ARENA_HALF - BOT_RADIUS of the centre.
C40_AgentsInBounds ==
    \A i \in Bots : Abs(gs.bots[i].position) <= ARENA_HALF - BOT_RADIUS

====
